---- MODULE Spec2Model ----
(***************************************************************************)
(* Model of coverage-enforcer: the range compactors of util.js             *)
(* (compactCountsToLineNumbers, compactLineNumbers), the File coverage     *)
(* model of file.js, and the diff parser, the aggregation over changed     *)
(* files, the verdict and run() of logic.js.                               *)
(*                                                                         *)
(* Encoding of JavaScript values.  A coverage marker is an integer:        *)
(*   null      (line not executable)          -> NULL                      *)
(*   undefined (read outside the array)       -> UNDEFINED                 *)
(*   -1        (line outside the changeset)   -> NOT_CHANGED               *)
(*   n >= 0    (execution count)              -> n                         *)
(* The filter functions below spell out the JavaScript comparison rules    *)
(* for null and undefined, so the encoding never takes part in arithmetic. *)
(* Arrays are sequences; the code's 0-based index k is position k+1.       *)
(***************************************************************************)
EXTENDS Integers, Sequences, FiniteSets, TLC

\* ------------------------------------------------------------------ bounds
MaxLen == 5      \* longest enumerated marker array handed to the compactor
MaxLines == 3    \* longest enumerated coverage array of a File
MaxCount == 2    \* largest enumerated execution count
MaxPatchLines == 4   \* most lines of an enumerated patch text
MaxLineNumber == 6   \* largest line number handed to compactLineNumbers
MaxTotal == 8    \* largest line total handed to calculateCoverage
MaxFiles == 2    \* most changed files handed to process
MaxRunFiles == 1 \* most changed files listed in a run
MaxAnalysed == 3 \* longest enumerated coverage array handed to analyzeCoverageForLines

\* --------------------------------------------------------------- encoding
NULL == -2
UNDEFINED == -3
NOT_CHANGED == -1
WAITING_FOR_START == 0
WAITING_FOR_END == 1

\* counts[k] of the code, k 0-based; a read outside the array is undefined
At(counts, k) == IF k >= 0 /\ k < Len(counts) THEN counts[k + 1] ELSE UNDEFINED

\* `${n}` and `${start}-${end}`
formatted(start, end) ==
  IF start = end THEN ToString(start) ELSE ToString(start) \o "-" \o ToString(end)

\* ------------------------------------------------- compactCountsToLineNumbers
startingFilterFunction(count) == count = 0
endingFilterFunction(count) == count = 0
nextStartingFilterFunction(count) == count # NULL /\ count # UNDEFINED /\ count > 0
excludedLineFilterFunction(count) == count = NOT_CHANGED

\* addToRange: both indexes become 1-based line numbers, then the range is pushed
addToRange_ZeroBased(ranges, start, end) ==
  Append(ranges, [start |-> start, end |-> end, formatted |-> formatted(start, end)])

addToRange(ranges, start, end) ==
  Append(ranges, [start |-> start + 1, end |-> end + 1,
                  formatted |-> formatted(start + 1, end + 1)])

\* (variants of the forward scan: one without the excluded-line test, one
\* that also stops on null)
scanAhead_IgnoresExcluded(counts, next_start) ==
  LET RECURSIVE go(_)
      go(n) == IF ~nextStartingFilterFunction(At(counts, n)) /\ n < Len(counts)
               THEN go(n + 1) ELSE n
  IN go(next_start)

scanAhead_StopsAtNull(counts, next_start) ==
  LET RECURSIVE go(_)
      go(n) == IF At(counts, n) = 0 /\ n < Len(counts) THEN go(n + 1) ELSE n
  IN go(next_start)

\* the forward while loop: advance next_start to the first executed or excluded
\* entry, or to counts.length
RECURSIVE scanAhead(_, _)
scanAhead(counts, next_start) ==
  IF (~nextStartingFilterFunction(At(counts, next_start))
        /\ ~excludedLineFilterFunction(At(counts, next_start)))
     /\ next_start < Len(counts)
  THEN scanAhead(counts, next_start + 1)
  ELSE next_start

\* (variants: one steps back to the nearest entry that is an execution
\* count of any size, one takes the entry before the boundary without
\* trimming trailing nulls)
scanBack_StopsOnAnyCount(counts, end) ==
  LET RECURSIVE go(_)
      go(n) == IF n < 0 THEN -1
               ELSE IF At(counts, n) \in {NULL, UNDEFINED, NOT_CHANGED} THEN go(n - 1)
               ELSE n
  IN go(end)

scanBack_NoTrim(counts, end) == end - 1

\* the backward while loop: step end back to the nearest entry that is 0.
\* The code has no lower bound; below index 0 every read is undefined and the
\* loop would not stop, which the model reports as index -1.
RECURSIVE scanBack(_, _)
scanBack(counts, end) ==
  IF end < 0 THEN -1
  ELSE IF ~endingFilterFunction(At(counts, end)) THEN scanBack(counts, end - 1)
  ELSE end

\* the local variables of one call
scanInit ==
  [i |-> 0, mode |-> WAITING_FOR_START, start |-> NULL, next_start |-> NULL,
   end |-> NULL, ranges |-> <<>>]

\* one pass of the for loop in mode WAITING_FOR_START, with the loop's i++
caseWaitingForStart(counts, s) ==
  IF startingFilterFunction(At(counts, s.i))
  THEN [s EXCEPT !.start = s.i, !.mode = WAITING_FOR_END, !.i = s.i + 1]
  ELSE [s EXCEPT !.i = s.i + 1]

\* (variant: the loop resumes at the entry after the range's start)
caseWaitingForEnd_ResumesAfterStart(counts, s) ==
  LET next_start == scanAhead(counts, s.i)
      end == scanBack(counts, next_start)
  IN [s EXCEPT !.next_start = next_start,
               !.end = end,
               !.ranges = addToRange(s.ranges, s.start, end),
               !.i = s.start + 1,
               !.mode = WAITING_FOR_START]

\* (variant: the loop resumes one entry after next_start)
caseWaitingForEnd_SkipsBoundary(counts, s) ==
  LET next_start == scanAhead(counts, s.i)
      end == scanBack(counts, next_start)
  IN [s EXCEPT !.next_start = next_start,
               !.end = end,
               !.ranges = addToRange(s.ranges, s.start, end),
               !.i = next_start + 1,
               !.mode = WAITING_FOR_START]

\* one pass of the for loop in mode WAITING_FOR_END, with the loop's i++
caseWaitingForEnd(counts, s) ==
  LET next_start == scanAhead(counts, s.i)
      end == scanBack(counts, next_start)
  IN [s EXCEPT !.next_start = next_start,
               !.end = end,
               !.ranges = addToRange(s.ranges, s.start, end),
               !.i = (next_start - 1) + 1,
               !.mode = WAITING_FOR_START]

\* the switch statement
loopBody(counts, s) ==
  IF s.mode = WAITING_FOR_START THEN caseWaitingForStart(counts, s)
  ELSE caseWaitingForEnd(counts, s)

\* "tidy up end", after the loop
tidyUpEnd_Omitted(counts, s) == s

tidyUpEnd(counts, s) ==
  IF s.mode = WAITING_FOR_END
  THEN [s EXCEPT !.end = Len(counts),
                 !.ranges = addToRange(s.ranges, s.start, Len(counts))]
  ELSE s

RECURSIVE scanLoop(_, _)
scanLoop(counts, s) ==
  IF s.i < Len(counts) THEN scanLoop(counts, loopBody(counts, s)) ELSE s

\* the function as a whole
compactCountsToLineNumbers(counts) ==
  IF Len(counts) = 0 THEN <<>>
  ELSE tidyUpEnd(counts, scanLoop(counts, scanInit)).ranges

\* ------------------------------------------------------------ class File
\* Array.prototype.includes / indexOf(x) !== -1
includes(seq, x) == \E k \in 1..Len(seq) : seq[k] = x

\* the line numbers 1..n in order
RECURSIVE lineNumbersUpTo(_)
lineNumbersUpTo(n) == IF n = 0 THEN <<>> ELSE Append(lineNumbersUpTo(n - 1), n)

\* constructor({name, skipped, changedLines, coverageData}); hasCoverageData is
\* FALSE when the coverageData argument is undefined (coverageData || [])
newFile(name, skipped, changedLines, hasCoverageData, coverageData) ==
  LET cd == IF hasCoverageData THEN coverageData ELSE <<>>
  IN [name |-> name,
      changedLines |-> changedLines,
      coverageData |-> cd,
      skipped |-> (skipped \/ Len(cd) = 0)]

changedLinesCount(f) == Len(f.changedLines)

partOfTestSuite(f) == Len(f.coverageData) > 0

lineCount(f) == Len(f.coverageData)

changedLinesCoverageData_KeepsCount(f) == f.coverageData

changedLinesCoverageData(f) ==
  [index \in 1..Len(f.coverageData) |->
     LET lineNumber == index
         count == f.coverageData[index]
         changed == includes(f.changedLines, lineNumber)
     IN IF changed THEN count ELSE NOT_CHANGED]

executableLines(f) ==
  LET isExecutable(lineNumber) == f.coverageData[lineNumber] # NULL
  IN SelectSeq(lineNumbersUpTo(Len(f.coverageData)), isExecutable)

executableLinesCount(f) == Len(executableLines(f))

executedLines(f) ==
  LET isExecuted(lineNumber) ==
        f.coverageData[lineNumber] # NULL /\ f.coverageData[lineNumber] > 0
  IN SelectSeq(lineNumbersUpTo(Len(f.coverageData)), isExecuted)

executedLinesCount(f) == Len(executedLines(f))

missedLines(f) ==
  LET isMissed(lineNumber) == f.coverageData[lineNumber] = 0
  IN SelectSeq(lineNumbersUpTo(Len(f.coverageData)), isMissed)

missedLinesCount(f) == Len(missedLines(f))

relevantLines(f) ==
  LET isExecutable(lineNumber) == includes(executableLines(f), lineNumber)
  IN SelectSeq(f.changedLines, isExecutable)

relevantLinesCount(f) == Len(relevantLines(f))

relevantMissedLines(f) ==
  LET isMissed(lineNumber) == includes(missedLines(f), lineNumber)
  IN SelectSeq(f.changedLines, isMissed)

relevantMissedLinesCount(f) == Len(relevantMissedLines(f))

changedUnexecutedLines(f) ==
  LET notExecuted(lineNumber) == ~includes(executedLines(f), lineNumber)
  IN SelectSeq(f.changedLines, notExecuted)

changedUnexecutedLineRanges(f) ==
  compactCountsToLineNumbers(changedLinesCoverageData(f))

relevantExecutedLinesCount(f) ==
  LET isExecuted(lineNumber) == includes(executedLines(f), lineNumber)
  IN Len(SelectSeq(relevantLines(f), isExecuted))

\* the quotient (relevantExecutedLinesCount / relevantLinesCount) * 100 kept
\* exact as the fraction num/den
coveragePercent_OverChangedLines(f) ==
  IF changedLinesCount(f) > 0
  THEN [num |-> relevantExecutedLinesCount(f) * 100, den |-> changedLinesCount(f)]
  ELSE [num |-> 0, den |-> 1]

coveragePercent(f) ==
  IF relevantLinesCount(f) > 0
  THEN [num |-> relevantExecutedLinesCount(f) * 100, den |-> relevantLinesCount(f)]
  ELSE [num |-> 100, den |-> 1]

wholeFileUnexecuted_Never(f) == FALSE

wholeFileUnexecuted(f) == partOfTestSuite(f) /\ executedLinesCount(f) = 0

wholeFileAnnotation(f) ==
  [path |-> f.name, start_line |-> 1, end_line |-> lineCount(f),
   annotation_level |-> "warning", message |-> "File has no coverage"]

rangeAnnotation(f, range) ==
  [path |-> f.name, start_line |-> range.start, end_line |-> range.end,
   annotation_level |-> "warning",
   message |-> IF range.start = range.end
               THEN "Line " \o range.formatted \o " has no coverage"
               ELSE "Lines " \o range.formatted \o " have no coverage"]

annotations_NoEarlyReturn(f) ==
  IF wholeFileUnexecuted(f) THEN <<wholeFileAnnotation(f)>>
  ELSE LET ranges == changedUnexecutedLineRanges(f)
       IN [k \in 1..Len(ranges) |-> rangeAnnotation(f, ranges[k])]

annotations(f) ==
  IF relevantMissedLinesCount(f) = 0 THEN <<>>
  ELSE IF wholeFileUnexecuted(f) THEN <<wholeFileAnnotation(f)>>
  ELSE LET ranges == changedUnexecutedLineRanges(f)
       IN [k \in 1..Len(ranges) |-> rangeAnnotation(f, ranges[k])]

\* ------------------------------------------------- logic.js: parseDiffHunks
\* Text is a sequence of one-character strings; a patch argument is
\* [defined, text], defined = FALSE for null/undefined.
NEWLINE == "\n"

DigitChars == <<"0", "1", "2", "3", "4", "5", "6", "7", "8", "9">>

IsDigit(c) == \E d \in 1..10 : DigitChars[d] = c

DigitValue(c) == (CHOOSE d \in 1..10 : DigitChars[d] = c) - 1

\* String.prototype.startsWith
startsWith(line, prefix) ==
  Len(line) >= Len(prefix) /\ SubSeq(line, 1, Len(prefix)) = prefix

\* String.prototype.split('\n')
RECURSIVE split(_)
split(text) ==
  IF \E p \in 1..Len(text) : text[p] = NEWLINE
  THEN LET p == CHOOSE q \in 1..Len(text) :
                  text[q] = NEWLINE /\ \A r \in 1..(q - 1) : text[r] # NEWLINE
       IN <<SubSeq(text, 1, p - 1)>> \o split(SubSeq(text, p + 1, Len(text)))
  ELSE <<text>>

\* parseInt(digits, 10) of a run of decimal digits
RECURSIVE parseInt(_)
parseInt(digits) ==
  IF Len(digits) = 0 THEN 0
  ELSE 10 * parseInt(SubSeq(digits, 1, Len(digits) - 1)) + DigitValue(digits[Len(digits)])

\* the position after the greedy run \d* that starts at p
RECURSIVE digitsEnd(_, _)
digitsEnd(line, p) ==
  IF p <= Len(line) /\ IsDigit(line[p]) THEN digitsEnd(line, p + 1) ELSE p

\* /\+(\d+),(\d+)/ matches with its '+' at position p
matchAt(line, p) ==
  /\ line[p] = "+"
  /\ LET e1 == digitsEnd(line, p + 1)
     IN /\ e1 > p + 1
        /\ e1 <= Len(line)
        /\ line[e1] = ","
        /\ digitsEnd(line, e1 + 1) > e1 + 1

\* line.match(/\+(\d+),(\d+)/): the leftmost match and its first group
match(line) ==
  IF \E p \in 1..Len(line) : matchAt(line, p)
  THEN LET p == CHOOSE q \in 1..Len(line) :
                  matchAt(line, q) /\ \A r \in 1..(q - 1) : ~matchAt(line, r)
       IN [found |-> TRUE, group1 |-> SubSeq(line, p + 1, digitsEnd(line, p + 1) - 1)]
  ELSE [found |-> FALSE, group1 |-> <<>>]

\* !patch: null, undefined and '' are falsy
falsy_OnlyEmptyString(patch) == patch.defined /\ patch.text = <<>>

falsy(patch) == ~patch.defined \/ patch.text = <<>>

\* patch.split throws a TypeError on null/undefined
splitThrows(patch) == ~patch.defined

\* (variant: a deletion advances the cursor like any other line)
parseLine_DeletionsAdvance(acc, line) ==
  IF startsWith(line, <<"@", "@">>)
  THEN IF match(line).found
       THEN [acc EXCEPT !.currentLineNumber = parseInt(match(line).group1)]
       ELSE acc
  ELSE [currentLineNumber |-> acc.currentLineNumber + 1,
        changedLines |->
          IF startsWith(line, <<"+">>) /\ ~startsWith(line, <<"+", "+", "+">>)
          THEN Append(acc.changedLines, acc.currentLineNumber)
          ELSE acc.changedLines]

\* the body of the for loop over the lines, on (currentLineNumber, changedLines)
parseLine(acc, line) ==
  IF startsWith(line, <<"@", "@">>)
  THEN IF match(line).found
       THEN [acc EXCEPT !.currentLineNumber = parseInt(match(line).group1)]
       ELSE acc
  ELSE LET pushed ==
             IF startsWith(line, <<"+">>) /\ ~startsWith(line, <<"+", "+", "+">>)
             THEN Append(acc.changedLines, acc.currentLineNumber)
             ELSE acc.changedLines
       IN IF ~startsWith(line, <<"-">>) \/ startsWith(line, <<"+">>)
          THEN [currentLineNumber |-> acc.currentLineNumber + 1, changedLines |-> pushed]
          ELSE [currentLineNumber |-> acc.currentLineNumber, changedLines |-> pushed]

RECURSIVE parseLines(_, _)
parseLines(acc, lines) ==
  IF Len(lines) = 0 THEN acc
  ELSE parseLines(parseLine(acc, Head(lines)), Tail(lines))

parseDiffHunks(patch) ==
  IF falsy(patch) THEN <<>>
  ELSE parseLines([currentLineNumber |-> 0, changedLines |-> <<>>],
                  split(patch.text)).changedLines

\* ---------------------------------------------- util.js: compactLineNumbers
rangeOf(start, end) == [start |-> start, end |-> end, formatted |-> formatted(start, end)]

\* (variant: any larger number extends the current range)
compactStep_ExtendsOverGaps(acc, curr) ==
  IF curr > acc.end THEN [acc EXCEPT !.end = curr]
  ELSE [ranges |-> Append(acc.ranges, rangeOf(acc.start, acc.end)),
        start |-> curr, end |-> curr]

\* the body of the for loop, on (ranges, start, end)
compactStep(acc, curr) ==
  IF curr = acc.end + 1 THEN [acc EXCEPT !.end = curr]
  ELSE [ranges |-> Append(acc.ranges, rangeOf(acc.start, acc.end)),
        start |-> curr, end |-> curr]

RECURSIVE compactSteps(_, _, _)
compactSteps(acc, lineNumbers, i) ==
  IF i > Len(lineNumbers) THEN acc
  ELSE compactSteps(compactStep(acc, lineNumbers[i]), lineNumbers, i + 1)

compactLineNumbers(lineNumbers) ==
  IF Len(lineNumbers) = 0 THEN <<>>
  ELSE LET acc == compactSteps([ranges |-> <<>>, start |-> lineNumbers[1],
                                end |-> lineNumbers[1]], lineNumbers, 2)
       IN Append(acc.ranges, rangeOf(acc.start, acc.end))

\* ------------------------------------------ logic.js: coverage and verdict
RECURSIVE gcd(_, _)
gcd(a, b) == IF b = 0 THEN a ELSE gcd(b, a % b)

\* The quotients coveredLines / relevantLines between 0 and 1, in lowest
\* terms, whose percentage is an exact tie x.5 while the product of doubles
\* is the double just below it: (23 / 40) * 100 = 57.49999999999999. Every
\* other quotient with a tie percentage has the denominator 8, 40 or 200 and
\* a product that is the tie itself or the double above it.
ProductsBelowTie == {<<23, 40>>, <<29, 200>>, <<57, 200>>, <<113, 200>>}

\* the double (coveredLines / relevantLines) * 100 for 0 <= coveredLines <=
\* relevantLines, relevantLines > 0: the exact percentage num/den, and whether
\* the double lies just below it
percentOfDoubles(coveredLines, relevantCount) ==
  LET g == gcd(coveredLines, relevantCount)
  IN [num |-> coveredLines * 100, den |-> relevantCount,
      below |-> <<coveredLines \div g, relevantCount \div g>> \in ProductsBelowTie]

\* Math.round: the nearest integer, a tie going up; the double just below a
\* tie goes down
round(x) ==
  IF x.below THEN x.num \div x.den
  ELSE (2 * x.num + x.den) \div (2 * x.den)

\* (the second parameter is relevantLines in the source)
calculateCoverage(coveredLines, relevantCount) ==
  IF relevantCount > 0 THEN round(percentOfDoubles(coveredLines, relevantCount)) ELSE 100

\* What parseInt returns is a number or NaN, kept as [isNaN, value]: NaN for
\* a non-numeric input, and every comparison with NaN is false
NaN == [isNaN |-> TRUE, value |-> 0]

number(n) == [isNaN |-> FALSE, value |-> n]

passed_Strict(coveragePercentage, coverageThreshold) ==
  ~coverageThreshold.isNaN /\ coveragePercentage > coverageThreshold.value

passed(coveragePercentage, coverageThreshold) ==
  ~coverageThreshold.isNaN /\ coveragePercentage >= coverageThreshold.value

\* ------------------------------------------------------- logic.js: process
\* A changed file is [filename, previous_filename, patch]; previous_filename
\* is "" when the field is absent.  coverageData maps a filename to
\* [defined, counts], defined = FALSE when the object has no such key of
\* its own.
isRenamedOnly(file) == file.previous_filename # "" /\ falsy(file.patch)

\* What a plain object inherits from Object.prototype: the accessor
\* __proto__, which returns Object.prototype itself, and functions, given
\* here with their length
FunctionLengths ==
  [name \in {"constructor", "hasOwnProperty", "isPrototypeOf", "propertyIsEnumerable",
             "toLocaleString", "toString", "valueOf", "__defineGetter__",
             "__defineSetter__", "__lookupGetter__", "__lookupSetter__"} |->
     CASE name \in {"toLocaleString", "toString", "valueOf"} -> 0
       [] name \in {"__defineGetter__", "__defineSetter__"} -> 2
       [] OTHER -> 1]

InheritedNames == DOMAIN FunctionLengths \cup {"__proto__"}

\* An object with no property "length" and no index properties is the
\* function on {0} (no array has the position 0); a function object of
\* length n, which has no index properties either, reads like an array of
\* n undefined entries
ObjectPrototype == [k \in {0} |-> UNDEFINED]

hasLength(fileCoverage) == 0 \notin DOMAIN fileCoverage

inherited(name) ==
  IF name = "__proto__" THEN ObjectPrototype
  ELSE [k \in 1..FunctionLengths[name] |-> UNDEFINED]

\* coverageData[filename]: the property of the object itself, else the one
\* it inherits, else undefined
property(coverageData, filename) ==
  IF filename \in DOMAIN coverageData /\ coverageData[filename].defined
  THEN coverageData[filename]
  ELSE IF filename \in InheritedNames
  THEN [defined |-> TRUE, counts |-> inherited(filename)]
  ELSE [defined |-> FALSE, counts |-> <<>>]

shouldAnalyzeFile(file, coverageData) ==
  IF isRenamedOnly(file) THEN FALSE
  ELSE IF ~property(coverageData, file.filename).defined THEN FALSE
  ELSE TRUE

\* coverageIndex >= fileCoverage.length, false when the length is undefined
atOrPastLength(coverageIndex, fileCoverage) ==
  hasLength(fileCoverage) /\ coverageIndex >= Len(fileCoverage)

\* fileCoverage[coverageIndex]
element(fileCoverage, coverageIndex) ==
  IF hasLength(fileCoverage) THEN At(fileCoverage, coverageIndex) ELSE UNDEFINED

\* what shouldAnalyzeFile writes with core.info
shouldAnalyzeFileInfo(file, coverageData) ==
  IF isRenamedOnly(file)
  THEN << "Skipping renamed file: " \o file.filename
            \o " (previously " \o file.previous_filename \o ")" >>
  ELSE <<>>

lineAnnotation(filePath, lineNumber) ==
  [path |-> filePath, start_line |-> lineNumber, end_line |-> lineNumber,
   annotation_level |-> "warning", message |-> "This line has no test coverage"]

\* (variants of the loop body: one counts a null line as covered, one
\* extends the current annotation over any later uncovered line)
analyzeLine_NullCovered(filePath, fileCoverage, acc, lineNumber) ==
  LET coverageIndex == lineNumber - 1
      coverage == element(fileCoverage, coverageIndex)
  IN IF coverageIndex < 0 \/ atOrPastLength(coverageIndex, fileCoverage) THEN acc
     ELSE IF coverage = NULL
     THEN [acc EXCEPT !.coveredChangedLines = acc.coveredChangedLines + 1]
     ELSE LET counted ==
                [acc EXCEPT !.relevantChangedLines = acc.relevantChangedLines + 1,
                            !.coveredChangedLines =
                               IF coverage > 0 THEN acc.coveredChangedLines + 1
                               ELSE acc.coveredChangedLines]
          IN IF coverage # 0 THEN counted
             ELSE IF ~acc.has
             THEN [counted EXCEPT !.has = TRUE,
                                  !.currentAnnotation = lineAnnotation(filePath, lineNumber),
                                  !.currentEndLine = lineNumber]
             ELSE IF lineNumber = acc.currentEndLine + 1
             THEN [counted EXCEPT !.currentEndLine = lineNumber,
                                  !.currentAnnotation.end_line = lineNumber]
             ELSE [counted EXCEPT !.annotations = Append(acc.annotations, acc.currentAnnotation),
                                  !.currentAnnotation = lineAnnotation(filePath, lineNumber),
                                  !.currentEndLine = lineNumber]

analyzeLine_ExtendsOverGaps(filePath, fileCoverage, acc, lineNumber) ==
  LET coverageIndex == lineNumber - 1
      coverage == element(fileCoverage, coverageIndex)
  IN IF coverageIndex < 0 \/ atOrPastLength(coverageIndex, fileCoverage) THEN acc
     ELSE IF coverage = NULL THEN acc
     ELSE LET counted ==
                [acc EXCEPT !.relevantChangedLines = acc.relevantChangedLines + 1,
                            !.coveredChangedLines =
                               IF coverage > 0 THEN acc.coveredChangedLines + 1
                               ELSE acc.coveredChangedLines]
          IN IF coverage # 0 THEN counted
             ELSE IF ~acc.has
             THEN [counted EXCEPT !.has = TRUE,
                                  !.currentAnnotation = lineAnnotation(filePath, lineNumber),
                                  !.currentEndLine = lineNumber]
             ELSE [counted EXCEPT !.currentEndLine = lineNumber,
                                  !.currentAnnotation.end_line = lineNumber]

\* the body of the for loop of analyzeCoverageForLines; has is FALSE while
\* currentAnnotation is null
analyzeLine(filePath, fileCoverage, acc, lineNumber) ==
  LET coverageIndex == lineNumber - 1
      coverage == element(fileCoverage, coverageIndex)
  IN IF coverageIndex < 0 \/ atOrPastLength(coverageIndex, fileCoverage) THEN acc
     ELSE IF coverage = NULL THEN acc
     ELSE LET counted ==
                [acc EXCEPT !.relevantChangedLines = acc.relevantChangedLines + 1,
                            !.coveredChangedLines =
                               IF coverage > 0 THEN acc.coveredChangedLines + 1
                               ELSE acc.coveredChangedLines]
          IN IF coverage # 0 THEN counted
             ELSE IF ~acc.has
             THEN [counted EXCEPT !.has = TRUE,
                                  !.currentAnnotation = lineAnnotation(filePath, lineNumber),
                                  !.currentEndLine = lineNumber]
             ELSE IF lineNumber = acc.currentEndLine + 1
             THEN [counted EXCEPT !.currentEndLine = lineNumber,
                                  !.currentAnnotation.end_line = lineNumber]
             ELSE [counted EXCEPT !.annotations = Append(acc.annotations, acc.currentAnnotation),
                                  !.currentAnnotation = lineAnnotation(filePath, lineNumber),
                                  !.currentEndLine = lineNumber]

RECURSIVE analyzeLines(_, _, _, _)
analyzeLines(filePath, fileCoverage, acc, lineNumbers) ==
  IF Len(lineNumbers) = 0 THEN acc
  ELSE analyzeLines(filePath, fileCoverage,
                    analyzeLine(filePath, fileCoverage, acc, Head(lineNumbers)),
                    Tail(lineNumbers))

analyzeCoverageForLines(filePath, fileCoverage, changedLineNumbers) ==
  LET acc == analyzeLines(filePath, fileCoverage,
                          [relevantChangedLines |-> 0, coveredChangedLines |-> 0,
                           annotations |-> <<>>, has |-> FALSE,
                           currentAnnotation |-> lineAnnotation(filePath, 0),
                           currentEndLine |-> NULL],
                          changedLineNumbers)
  IN [totalChangedLines |-> Len(changedLineNumbers),
      relevantChangedLines |-> acc.relevantChangedLines,
      coveredChangedLines |-> acc.coveredChangedLines,
      annotations |-> IF acc.has THEN Append(acc.annotations, acc.currentAnnotation)
                      ELSE acc.annotations]

processFile(file, coverageData) ==
  IF ~shouldAnalyzeFile(file, coverageData)
  THEN [skipped |-> TRUE, filename |-> file.filename]
  ELSE LET fileCoverage == property(coverageData, file.filename).counts
           changedLineNumbers == parseDiffHunks(file.patch)
       IN IF Len(changedLineNumbers) = 0
          THEN [skipped |-> FALSE, totalChangedLines |-> 0, relevantChangedLines |-> 0,
                coveredChangedLines |-> 0, annotations |-> <<>>]
          ELSE LET r == analyzeCoverageForLines(file.filename, fileCoverage, changedLineNumbers)
               IN [skipped |-> FALSE, totalChangedLines |-> r.totalChangedLines,
                   relevantChangedLines |-> r.relevantChangedLines,
                   coveredChangedLines |-> r.coveredChangedLines,
                   annotations |-> r.annotations]

\* the body of the for loop of process
processStep(acc, file, coverageData) ==
  LET result == processFile(file, coverageData)
  IN IF result.skipped
     THEN [acc EXCEPT !.skippedFiles = Append(acc.skippedFiles, result.filename)]
     ELSE [acc EXCEPT
             !.totalChangedLines = acc.totalChangedLines + result.totalChangedLines,
             !.relevantChangedLines = acc.relevantChangedLines + result.relevantChangedLines,
             !.coveredChangedLines = acc.coveredChangedLines + result.coveredChangedLines,
             !.annotations = acc.annotations \o result.annotations]

RECURSIVE processSteps(_, _, _)
processSteps(acc, changedFiles, coverageData) ==
  IF Len(changedFiles) = 0 THEN acc
  ELSE processSteps(processStep(acc, Head(changedFiles), coverageData),
                    Tail(changedFiles), coverageData)

process(changedFiles, coverageData) ==
  processSteps([totalChangedLines |-> 0, relevantChangedLines |-> 0,
                coveredChangedLines |-> 0, annotations |-> <<>>, skippedFiles |-> <<>>],
               changedFiles, coverageData)

\* the core.info lines process writes, file by file
RECURSIVE processInfo(_, _)
processInfo(changedFiles, coverageData) ==
  IF Len(changedFiles) = 0 THEN <<>>
  ELSE shouldAnalyzeFileInfo(Head(changedFiles), coverageData)
         \o processInfo(Tail(changedFiles), coverageData)

\* ------------------------------------------------------------------ inputs
Markers == {NULL, NOT_CHANGED} \cup (0..MaxCount)

CoverageMarkers == {NULL} \cup (0..MaxCount)

\* the arrays of the util tests, beside every array of up to MaxLen markers
ScenarioCounts ==
  { <<1, 2, 1, NULL, 0, 0, NULL, 0, 1>>,
    <<1, 0, NULL, 0, 1, 0, NULL, 0, 1>>,
    <<0, NULL, 0, NULL, NOT_CHANGED, NOT_CHANGED, 0, NULL, 1>> }

MarkerArrays ==
  UNION { [1..n -> Markers] : n \in 0..MaxLen } \cup ScenarioCounts

\* a set of line numbers as the ascending array the diff parser hands over
RECURSIVE ascending(_)
ascending(S) ==
  IF S = {} THEN <<>>
  ELSE LET m == CHOOSE x \in S : \A y \in S : y <= x
       IN Append(ascending(S \ {m}), m)

\* the Files of the File tests, beside every File of up to MaxLines lines
ScenarioFiles ==
  { [changedLines |-> <<1, 2, 3>>,
     coverageData |-> <<1, 0, NULL, 1, 0, 1, 1, 1, 1, 1>>],
    [changedLines |-> <<1, 2, 3, 4, 5, 6, 7, 8, 9>>,
     coverageData |-> <<1, 0, NULL, 1, 0, 0, 1, 1, 1, 1>>],
    [changedLines |-> <<1, 2, 3, 4>>,
     coverageData |-> <<0, 0, NULL, 0>>],
    [changedLines |-> <<1, 2, 3, 4, 5, 6, 7, 8, 9>>,
     coverageData |-> <<1, 0, NULL, 0, 0, 0, 1, 1, 1, 1>>],
    [changedLines |-> <<1, 2, 3, 4, 5, 6, 7, 8, 9>>,
     coverageData |-> <<1, 0, NULL, 0, 0, NULL, NULL, 1, 1, 1>>] }

FileInputs ==
  { [changedLines |-> ascending(S), coverageData |-> cd] :
      S \in SUBSET (1..(MaxLines + 1)),
      cd \in UNION { [1..n -> CoverageMarkers] : n \in 0..MaxLines } }
  \cup ScenarioFiles

\* diff lines: "@@ -1,2 +3,4 @@", "@@ -9,3 +12,4 @@ f", "@@ -0,0 +1 @@" (no
\* length after the new start), "+a", "-b", " c", "+++ b" and the empty line
DiffLines ==
  { <<"@", "@", " ", "-", "1", ",", "2", " ", "+", "3", ",", "4", " ", "@", "@">>,
    <<"@", "@", " ", "-", "9", ",", "3", " ", "+", "1", "2", ",", "4", " ", "@", "@", " ", "f">>,
    <<"@", "@", " ", "-", "0", ",", "0", " ", "+", "1", " ", "@", "@">>,
    <<"+", "a">>, <<"-", "b">>, <<" ", "c">>,
    <<"+", "+", "+", " ", "b">>,
    <<>> }

RECURSIVE join(_)
join(lines) ==
  IF Len(lines) = 0 THEN <<>>
  ELSE IF Len(lines) = 1 THEN lines[1]
  ELSE lines[1] \o <<NEWLINE>> \o join(Tail(lines))

\* the patch of the process tests: "@@ -1,3 +1,3 @@\n+1\n+2\n+3"
PatchThreeAdded ==
  <<"@", "@", " ", "-", "1", ",", "3", " ", "+", "1", ",", "3", " ", "@", "@", "\n", "+", "1", "\n", "+", "2", "\n", "+", "3">>

\* "@@ -1,2 +2,3 @@\n a\n-b\n+c"
PatchOneAdded ==
  <<"@", "@", " ", "-", "1", ",", "2", " ", "+", "2", ",", "3", " ", "@", "@", "\n", " ", "a", "\n", "-", "b", "\n", "+", "c">>

\* two hunks, each with a deletion between its additions:
\* "@@ -1,2 +3,4 @@\n+a\n-b\n c\n+a\n@@ -9,3 +12,4 @@ f\n+a\n-b\n+a"
PatchTwoHunks ==
  join(<< <<"@", "@", " ", "-", "1", ",", "2", " ", "+", "3", ",", "4", " ", "@", "@">>,
          <<"+", "a">>, <<"-", "b">>, <<" ", "c">>, <<"+", "a">>,
          <<"@", "@", " ", "-", "9", ",", "3", " ", "+", "1", "2", ",", "4", " ", "@", "@",
            " ", "f">>,
          <<"+", "a">>, <<"-", "b">>, <<"+", "a">> >>)

absentPatch == [defined |-> FALSE, text |-> <<>>]

textPatch(text) == [defined |-> TRUE, text |-> text]

PatchInputs ==
  { textPatch(join(lines)) : lines \in UNION { [1..n -> DiffLines] : n \in 0..MaxPatchLines } }
  \cup { absentPatch, textPatch(PatchThreeAdded), textPatch(PatchOneAdded),
         textPatch(PatchTwoHunks) }

\* the array of the compactLineNumbers test, beside every ascending array
LineNumberInputs ==
  { ascending(S) : S \in SUBSET (1..MaxLineNumber) }
  \cup { <<1, 2, 3, 4, 8, 10, 11, 12, 14, 15>> }

FileNames == {"src/new-name.js", "README.md"}

ChangedFiles ==
  { [filename |-> n, previous_filename |-> prev, patch |-> pt] :
      n \in FileNames,
      prev \in {"", "src/old-name.js"},
      pt \in {absentPatch, textPatch(PatchThreeAdded), textPatch(PatchOneAdded)} }

\* changed files named like a property every object inherits
InheritedNameFiles ==
  { [filename |-> n, previous_filename |-> "", patch |-> textPatch(PatchThreeAdded)] :
      n \in {"constructor", "__proto__"} }

ChangedFileLists(max) ==
  UNION { [1..n -> ChangedFiles \cup InheritedNameFiles] : n \in 0..max }

\* the files a pull request lists in a run: a file with added lines, and a
\* file renamed without a patch
RunChangedFiles ==
  { f \in ChangedFiles :
      \/ f.previous_filename = "" /\ f.patch # absentPatch
      \/ f.previous_filename # "" /\ f.patch = absentPatch }

RunChangedFileLists(max) == UNION { [1..n -> RunChangedFiles] : n \in 0..max }

noCoverage == [defined |-> FALSE, counts |-> <<>>]

CoverageEntries ==
  { noCoverage,
    [defined |-> TRUE, counts |-> <<1, 0, 1>>],
    [defined |-> TRUE, counts |-> <<NULL, 0>>],
    [defined |-> TRUE, counts |-> <<0, 0, 2>>] }

CoverageMaps == [FileNames -> CoverageEntries]

\* the arguments of analyzeCoverageForLines: every ascending list of line
\* numbers from 0 to one past the longest array, beside the file of the
\* pull-request test of run()
AnalysedPath == "src/file1.js"

AnalysisInputs ==
  { [changedLineNumbers |-> ascending(S), fileCoverage |-> cd] :
      S \in SUBSET (0..(MaxAnalysed + 1)),
      cd \in UNION { [1..n -> CoverageMarkers] : n \in 0..MaxAnalysed } }
  \cup { [changedLineNumbers |-> <<1, 2, 3, 4, 5, 6, 7, 8, 9, 10>>,
          fileCoverage |-> <<1, 0, NULL, 1, 0, 1, 1, 1, 1, 1>>] }

\* error.message of what read throws (readFileSync or JSON.parse), and of a
\* rejected request
\* totals whose percentage is an exact tie: 12.5, 57.5 and 14.5
TieTotals == {<<1, 8>>, <<23, 40>>, <<29, 200>>}

\* the arguments of calculateCoverage: covered lines among relevant lines
TotalPairs ==
  { <<c, r>> \in (0..MaxTotal) \X (0..MaxTotal) : c <= r } \cup TieTotals

ReadErrors == {"Test error", "Unexpected end of JSON input"}

RequestErrors == {"Not Found", "Bad credentials"}

\* coverage-threshold after parseInt
Thresholds == {number(0), number(67), number(90), number(100), NaN}

\* github.context.eventName: a pull request, or a push (every other event is
\* handled as a push)
EventNames == {"pull_request", "push"}

\* github.context.sha
ContextSha == "merge-sha"

NoFile == [name |-> "", changedLines |-> <<>>, coverageData |-> <<>>, skipped |-> TRUE]

\* ------------------------------------------------------------------- state
VARIABLES
  pc,        \* "idle", then the position inside the one call that was made
  counts,    \* the argument of the running compactCountsToLineNumbers call
  scan,      \* its local variables: i, mode, start, next_start, end, ranges
  file,      \* the File instance: name, changedLines, coverageData, skipped
  got,       \* the getters of the File read so far
  annotationsValue,               \* what File.annotations returned
  changedLinesCoverageDataValue,  \* what File.changedLinesCoverageData returned
  coveragePercentValue,           \* what File.coveragePercent returned
  diff,      \* parseDiffHunks: patch, threw, changedLines
  lines,     \* compactLineNumbers: lineNumbers, ranges
  calc,      \* calculateCoverage: coveredLines, relevantLines, coveragePercentage
  proc,      \* process: changedFiles, coverageData, fileResults, result, info
  run,       \* run(): its position, inputs, locals and calls on core and octokit
  analysis   \* analyzeCoverageForLines: fileCoverage, changedLineNumbers, result

vars == <<pc, counts, scan, file, got, annotationsValue, changedLinesCoverageDataValue,
          coveragePercentValue, diff, lines, calc, proc, run, analysis>>

fileVars == <<file, got, annotationsValue, changedLinesCoverageDataValue>>

compactVars == <<counts, scan>>

logicVars == <<diff, lines, calc, proc, run>>

noResult ==
  [totalChangedLines |-> 0, relevantChangedLines |-> 0, coveredChangedLines |-> 0,
   annotations |-> <<>>, skippedFiles |-> <<>>]

noRun ==
  [pc |-> "none", eventName |-> "", coverageThreshold |-> NaN, annotate |-> FALSE,
   coverageData |-> [n \in FileNames |-> noCoverage], changedFiles |-> <<>>,
   changedLines |-> <<>>, result |-> noResult, coveragePercentage |-> 0,
   success |-> FALSE,
   metrics |-> [totalFiles |-> 0, totalRelevantLines |-> 0, totalCoveredLines |-> 0],
   report |-> [title |-> "", summary |-> "", details |-> ""], info |-> <<>>,
   error |-> "", checks |-> <<>>, outputs |-> <<>>, setFailed |-> <<>>,
   consoleError |-> <<>>, threwAt |-> "", calls |-> <<>>]

Init ==
  /\ pc = "idle"
  /\ counts = <<>>
  /\ scan = scanInit
  /\ file = NoFile
  /\ got = {}
  /\ annotationsValue = <<>>
  /\ changedLinesCoverageDataValue = <<>>
  /\ coveragePercentValue = [num |-> 0, den |-> 1]
  /\ diff = [patch |-> absentPatch, threw |-> FALSE, changedLines |-> <<>>]
  /\ lines = [lineNumbers |-> <<>>, ranges |-> <<>>]
  /\ calc = [coveredLines |-> 0, relevantLines |-> 0, coveragePercentage |-> 0]
  /\ proc = [changedFiles |-> <<>>, coverageData |-> [n \in FileNames |-> noCoverage],
             fileResults |-> <<>>, result |-> noResult, info |-> <<>>]
  /\ run = noRun
  /\ analysis = [fileCoverage |-> <<>>, changedLineNumbers |-> <<>>,
                 result |-> [totalChangedLines |-> 0, relevantChangedLines |-> 0,
                             coveredChangedLines |-> 0, annotations |-> <<>>]]

\* ----------------------------------------------------------------- actions
\* compactCountsToLineNumbers(counts): entry, with the early return on []
CompactCall ==
  /\ pc = "idle"
  /\ \E c \in MarkerArrays :
       /\ counts' = c
       /\ scan' = scanInit
       /\ pc' = IF Len(c) = 0 THEN "compact_done" ELSE "compact_loop"
  /\ UNCHANGED <<fileVars, coveragePercentValue, analysis, logicVars>>

\* one pass of the for loop, mode WAITING_FOR_START
CompactWaitingForStart ==
  /\ pc = "compact_loop"
  /\ scan.i < Len(counts)
  /\ scan.mode = WAITING_FOR_START
  /\ scan' = loopBody(counts, scan)
  /\ UNCHANGED <<pc, counts, fileVars, coveragePercentValue, analysis, logicVars>>

\* one pass of the for loop, mode WAITING_FOR_END
CompactWaitingForEnd ==
  /\ pc = "compact_loop"
  /\ scan.i < Len(counts)
  /\ scan.mode = WAITING_FOR_END
  /\ scan' = loopBody(counts, scan)
  /\ UNCHANGED <<pc, counts, fileVars, coveragePercentValue, analysis, logicVars>>

\* the loop is over: tidy up the end and return ranges
CompactReturn ==
  /\ pc = "compact_loop"
  /\ scan.i >= Len(counts)
  /\ scan' = tidyUpEnd(counts, scan)
  /\ pc' = "compact_done"
  /\ UNCHANGED <<counts, fileVars, coveragePercentValue, analysis, logicVars>>

\* new File({name, skipped, changedLines, coverageData})
NewFile ==
  /\ pc = "idle"
  /\ \E in \in FileInputs, skipped \in BOOLEAN, hasCoverageData \in BOOLEAN :
       file' = newFile("foo.js", skipped, in.changedLines, hasCoverageData, in.coverageData)
  /\ pc' = "file"
  /\ UNCHANGED <<counts, scan, got, annotationsValue, changedLinesCoverageDataValue,
                 coveragePercentValue, analysis, logicVars>>

\* read file.annotations
GetAnnotations ==
  /\ pc = "file"
  /\ "annotations" \notin got
  /\ annotationsValue' = annotations(file)
  /\ got' = got \cup {"annotations"}
  /\ UNCHANGED <<pc, counts, scan, file, changedLinesCoverageDataValue,
                 coveragePercentValue, analysis, logicVars>>

\* read file.changedLinesCoverageData
GetChangedLinesCoverageData ==
  /\ pc = "file"
  /\ "changedLinesCoverageData" \notin got
  /\ changedLinesCoverageDataValue' = changedLinesCoverageData(file)
  /\ got' = got \cup {"changedLinesCoverageData"}
  /\ UNCHANGED <<pc, counts, scan, file, annotationsValue, coveragePercentValue, analysis, logicVars>>

\* read file.coveragePercent
GetCoveragePercent ==
  /\ pc = "file"
  /\ got = {}
  /\ coveragePercentValue' = coveragePercent(file)
  /\ got' = {"coveragePercent"}
  /\ UNCHANGED <<pc, counts, scan, file, annotationsValue, changedLinesCoverageDataValue,
                 logicVars, analysis>>

\* parseDiffHunks(patch)
ParseDiffHunksCall ==
  /\ pc = "idle"
  /\ \E p \in PatchInputs :
       diff' = IF ~falsy(p) /\ splitThrows(p)
               THEN [patch |-> p, threw |-> TRUE, changedLines |-> <<>>]
               ELSE [patch |-> p, threw |-> FALSE, changedLines |-> parseDiffHunks(p)]
  /\ pc' = "parsed"
  /\ UNCHANGED <<compactVars, fileVars, coveragePercentValue, analysis, lines, calc, proc, run>>

\* compactLineNumbers(lineNumbers) of util.js
CompactLineNumbersCall ==
  /\ pc = "idle"
  /\ \E ns \in LineNumberInputs :
       lines' = [lineNumbers |-> ns, ranges |-> compactLineNumbers(ns)]
  /\ pc' = "lines_done"
  /\ UNCHANGED <<compactVars, fileVars, coveragePercentValue, analysis, diff, calc, proc, run>>

\* calculateCoverage(coveredLines, relevantLines)
CalculateCoverageCall ==
  /\ pc = "idle"
  /\ \E t \in TotalPairs :
       LET c == t[1]
           r == t[2]
       IN calc' = [coveredLines |-> c, relevantLines |-> r,
                   coveragePercentage |-> calculateCoverage(c, r)]
  /\ pc' = "calc_done"
  /\ UNCHANGED <<compactVars, fileVars, coveragePercentValue, analysis, diff, lines, proc, run>>

\* process({changedFiles, coverageData})
ProcessCall ==
  /\ pc = "idle"
  /\ \E cf \in ChangedFileLists(MaxFiles), cd \in CoverageMaps :
       proc' = [changedFiles |-> cf, coverageData |-> cd,
                fileResults |-> [k \in 1..Len(cf) |-> processFile(cf[k], cd)],
                result |-> process(cf, cd),
                info |-> processInfo(cf, cd)]
  /\ pc' = "processed"
  /\ UNCHANGED <<compactVars, fileVars, coveragePercentValue, analysis, diff, lines, calc, run>>

\* a number inside a template literal
formatNumber(n) == ToString(n)

\* the result of parseInt inside a template literal
formatParsed(t) == IF t.isNaN THEN "NaN" ELSE formatNumber(t.value)

belowThresholdMessage(coveragePercentage, coverageThreshold) ==
  "Code coverage (" \o formatNumber(coveragePercentage)
    \o "%) is below the required threshold (" \o formatParsed(coverageThreshold) \o "%)"

RECURSIVE joinComma(_)
joinComma(names) ==
  IF Len(names) = 0 THEN ""
  ELSE IF Len(names) = 1 THEN names[1]
  ELSE names[1] \o "," \o joinComma(Tail(names))

\* the value of a decimal digit
digitOf(c) == CHOOSE d \in 0..9 : DigitChars[d + 1] = c

charAt(name, k) == SubSeq(name, k, k)

\* a and b are digit strings of one length: a comes before b
RECURSIVE digitsBefore(_, _, _)
digitsBefore(a, b, k) ==
  IF k > Len(a) THEN FALSE
  ELSE IF charAt(a, k) # charAt(b, k) THEN digitOf(charAt(a, k)) < digitOf(charAt(b, k))
  ELSE digitsBefore(a, b, k + 1)

\* the numeric order of two canonical numeric strings
indexBefore(a, b) ==
  Len(a) < Len(b) \/ (Len(a) = Len(b) /\ digitsBefore(a, b, 1))

\* a property key that is an array index: the canonical decimal text of an
\* integer from 0 to 2^32 - 2
isArrayIndex(name) ==
  /\ Len(name) > 0
  /\ \A k \in 1..Len(name) : IsDigit(charAt(name, k))
  /\ Len(name) > 1 => charAt(name, 1) # "0"
  /\ \/ Len(name) < 10
     \/ Len(name) = 10 /\ ~indexBefore("4294967294", name)

\* the place (1-based) a new key takes among the entries of an object:
\* array indexes come first in ascending order, the other keys follow in the
\* order of their creation
placeOf(output, filename) ==
  IF isArrayIndex(filename)
  THEN 1 + Cardinality({ k \in 1..Len(output) :
                          /\ isArrayIndex(output[k].filename)
                          /\ indexBefore(output[k].filename, filename) })
  ELSE Len(output) + 1

\* output[filename] = changedLineNumbers on an object kept as the sequence of
\* its entries in Object.entries order: a known key keeps its place and takes
\* the new value, a new key is placed by placeOf, and the key "__proto__"
\* sets the prototype without creating an entry
objectSet(output, filename, changedLineNumbers) ==
  LET entry == [filename |-> filename, changedLineNumbers |-> changedLineNumbers]
      place == placeOf(output, filename)
  IN IF filename = "__proto__" THEN output
     ELSE IF \E k \in 1..Len(output) : output[k].filename = filename
     THEN [k \in 1..Len(output) |->
             IF output[k].filename = filename THEN entry ELSE output[k]]
     ELSE SubSeq(output, 1, place - 1) \o <<entry>> \o SubSeq(output, place, Len(output))

RECURSIVE determineChangedLinesFrom(_, _)
determineChangedLinesFrom(output, changedFiles) ==
  IF Len(changedFiles) = 0 THEN output
  ELSE determineChangedLinesFrom(
         objectSet(output, Head(changedFiles).filename,
                   parseDiffHunks(Head(changedFiles).patch)),
         Tail(changedFiles))

determineChangedLines(changedFiles) == determineChangedLinesFrom(<<>>, changedFiles)

\* the inner loop body of calculateTotalMetrics, on the two counters
metricsStep(acc, coverage) ==
  IF coverage = NULL THEN acc
  ELSE [totalRelevantLines |-> acc.totalRelevantLines + 1,
        totalCoveredLines |-> IF coverage > 0 THEN acc.totalCoveredLines + 1
                              ELSE acc.totalCoveredLines]

RECURSIVE metricsOfFile(_, _)
metricsOfFile(acc, fileCoverage) ==
  IF Len(fileCoverage) = 0 THEN acc
  ELSE metricsOfFile(metricsStep(acc, Head(fileCoverage)), Tail(fileCoverage))

\* the outer loop over Object.values(coverageData)
RECURSIVE metricsOfFiles(_, _, _)
metricsOfFiles(acc, coverageData, names) ==
  IF names = {} THEN acc
  ELSE LET n == CHOOSE x \in names : TRUE
       IN metricsOfFiles(metricsOfFile(acc, coverageData[n].counts), coverageData,
                         names \ {n})

\* the keys of the coverage map
coveredFileNames(coverageData) == { n \in DOMAIN coverageData : coverageData[n].defined }

calculateTotalMetrics(coverageData) ==
  LET totals == metricsOfFiles([totalRelevantLines |-> 0, totalCoveredLines |-> 0],
                               coverageData, coveredFileNames(coverageData))
  IN [totalFiles |-> Cardinality(coveredFileNames(coverageData)),
      totalRelevantLines |-> totals.totalRelevantLines,
      totalCoveredLines |-> totals.totalCoveredLines]

\* Array.prototype.join on strings
RECURSIVE joinWith(_, _)
joinWith(strings, separator) ==
  IF Len(strings) = 0 THEN ""
  ELSE IF Len(strings) = 1 THEN strings[1]
  ELSE strings[1] \o separator \o joinWith(Tail(strings), separator)

\* logic.js has a compactLineNumbers of its own, which returns the text
\* "1-3, 5-6"
RECURSIVE compactLineNumbersLoop(_, _, _)
compactLineNumbersLoop(acc, lineNumbers, i) ==
  IF i > Len(lineNumbers) THEN acc
  ELSE LET curr == lineNumbers[i]
       IN IF curr = acc.end + 1
          THEN compactLineNumbersLoop([acc EXCEPT !.end = curr], lineNumbers, i + 1)
          ELSE compactLineNumbersLoop(
                 [ranges |-> Append(acc.ranges, formatted(acc.start, acc.end)),
                  start |-> curr, end |-> curr], lineNumbers, i + 1)

compactLineNumbersText(lineNumbers) ==
  IF Len(lineNumbers) = 0 THEN ""
  ELSE LET acc == compactLineNumbersLoop([ranges |-> <<>>, start |-> lineNumbers[1],
                                          end |-> lineNumbers[1]], lineNumbers, 2)
       IN joinWith(Append(acc.ranges, formatted(acc.start, acc.end)), ", ")

\* a TLA+ string cannot hold the backquote that the source puts around a file
\* name; the apostrophe stands for it
BACKQUOTE == "'"

\* the "Skipped ..." paragraph of the details
skippedFilesText(skippedFiles) ==
  IF Len(skippedFiles) > 0
  THEN "\n\nSkipped " \o ToString(Len(skippedFiles)) \o " files not in coverage data:\n"
         \o joinWith([k \in 1..Len(skippedFiles) |-> "- " \o BACKQUOTE \o skippedFiles[k] \o BACKQUOTE], "\n")
  ELSE ""

RECURSIVE changedLinesEntries(_)
changedLinesEntries(changedLines) ==
  IF Len(changedLines) = 0 THEN ""
  ELSE "\n- " \o BACKQUOTE \o Head(changedLines).filename \o BACKQUOTE \o ": lines "
         \o compactLineNumbersText(Head(changedLines).changedLineNumbers)
         \o changedLinesEntries(Tail(changedLines))

\* the "Changed lines:" paragraph of the details
changedLinesText(changedLines) ==
  IF Len(changedLines) > 0
  THEN "\n\nChanged lines:" \o changedLinesEntries(changedLines)
  ELSE ""

\* the details text around the number printed before "lines missed"
detailsText(m, linesMissed, skippedFiles, changedLines) ==
  formatNumber(m.totalFiles) \o " files in total.\n\n"
    \o formatNumber(m.totalRelevantLines) \o " relevant lines, "
    \o formatNumber(m.totalCoveredLines) \o " lines covered and "
    \o formatNumber(linesMissed) \o " lines missed. ("
    \o formatNumber(calculateCoverage(m.totalCoveredLines, m.totalRelevantLines)) \o "%)"
    \o skippedFilesText(skippedFiles)
    \o changedLinesText(changedLines)

\* summarize({...}); m holds totalFiles, totalRelevantLines, totalCoveredLines
\* and result the figures of process()
summarize(m, coveragePercentage, result, changedLines) ==
  [title |-> "Coverage for changed lines: " \o formatNumber(coveragePercentage) \o "%",
   summary |-> "A total of " \o formatNumber(result.totalChangedLines)
                 \o " lines haved changed in " \o ToString(Len(changedLines))
                 \o " files, of which " \o formatNumber(result.relevantChangedLines)
                 \o " are relevant and " \o formatNumber(result.coveredChangedLines)
                 \o " were executed.",
   details |-> detailsText(m, m.totalCoveredLines - m.totalRelevantLines,
                           result.skippedFiles, changedLines)]

\* run(): the inputs are read
RunGetInputs ==
  /\ pc = "idle"
  /\ \E e \in EventNames, t \in Thresholds, a \in BOOLEAN :
       run' = [noRun EXCEPT !.pc = "read", !.eventName = e, !.coverageThreshold = t,
                            !.annotate = a]
  /\ pc' = "run"
  /\ UNCHANGED <<compactVars, fileVars, coveragePercentValue, analysis, diff, lines, calc, proc>>

\* run(): read(coverageFile) returns the coverage map, determineChangedFiles
\* makes its request and run() waits for the answer
RunRead ==
  /\ pc = "run"
  /\ run.pc = "read"
  /\ \E cd \in CoverageMaps :
       run' = [run EXCEPT !.pc = "fetch", !.coverageData = cd,
                          !.calls = @ \o <<"read", "determineChangedFiles">>]
  /\ UNCHANGED <<pc, compactVars, fileVars, coveragePercentValue, analysis, diff, lines, calc, proc>>

\* run(): read(coverageFile) throws
RunReadThrows ==
  /\ pc = "run"
  /\ run.pc = "read"
  /\ \E message \in ReadErrors :
       run' = [run EXCEPT !.pc = "catch", !.error = message, !.threwAt = "read",
                          !.calls = Append(@, "read")]
  /\ UNCHANGED <<pc, compactVars, fileVars, coveragePercentValue, analysis, diff, lines, calc, proc>>

\* run(): the request of determineChangedFiles is answered, and everything
\* up to passed() is computed
RunDetermineChangedFiles ==
  /\ pc = "run"
  /\ run.pc = "fetch"
  /\ \E cf \in RunChangedFileLists(MaxRunFiles) :
       \E changedLines \in {determineChangedLines(cf)},
          metrics \in {calculateTotalMetrics(run.coverageData)},
          result \in {process(cf, run.coverageData)} :
         \E coveragePercentage \in {calculateCoverage(result.coveredChangedLines,
                                                      result.relevantChangedLines)} :
           \E report \in {summarize(metrics, coveragePercentage, result, changedLines)},
              success \in {passed(coveragePercentage, run.coverageThreshold)} :
             run' = [run EXCEPT !.pc = IF run.annotate THEN "check" ELSE "outputs",
                                !.changedFiles = cf,
                                !.changedLines = changedLines,
                                !.metrics = metrics,
                                !.result = result,
                                !.coveragePercentage = coveragePercentage,
                                !.report = report,
                                !.info = Append(processInfo(cf, run.coverageData),
                                                joinWith(<<report.title, report.summary,
                                                           report.details>>, "\n\n")),
                                !.success = success]
  /\ UNCHANGED <<pc, compactVars, fileVars, coveragePercentValue, analysis, diff, lines, calc, proc>>

\* run(): the request of determineChangedFiles is rejected
RunDetermineChangedFilesThrows ==
  /\ pc = "run"
  /\ run.pc = "fetch"
  /\ \E message \in RequestErrors :
       run' = [run EXCEPT !.pc = "catch", !.error = message,
                          !.threwAt = "determineChangedFiles"]
  /\ UNCHANGED <<pc, compactVars, fileVars, coveragePercentValue, analysis, diff, lines, calc, proc>>

\* determineCommitSha(github) reads github.event.pull_request on a pull
\* request; the module object has no property "event", so the read throws
determineCommitShaThrows(eventName) == eventName = "pull_request"

determineCommitSha(eventName) == ContextSha

TypeErrorMessage == "Cannot read properties of undefined (reading 'pull_request')"

\* core.info of createCheck, before its request
addingCheckMessage(eventName) == "Adding check status to " \o determineCommitSha(eventName)

\* run(): createCheck, when annotate is set, logs the commit and makes its
\* request (kept in checks), and run() waits for the answer
RunCreateCheck ==
  /\ pc = "run"
  /\ run.pc = "check"
  /\ ~determineCommitShaThrows(run.eventName)
  /\ run' = [run EXCEPT
               !.pc = "awaitCheck",
               !.calls = Append(@, "createCheck"),
               !.info = Append(@, addingCheckMessage(run.eventName)),
               !.checks = Append(@, [name |-> "Code coverage",
                                     head_sha |-> determineCommitSha(run.eventName),
                                     status |-> "completed",
                                     conclusion |-> IF run.success THEN "success"
                                                    ELSE "failure",
                                     annotations |-> run.result.annotations])]
  /\ UNCHANGED <<pc, compactVars, fileVars, coveragePercentValue, analysis, diff, lines, calc, proc>>

\* run(): createCheck throws in determineCommitSha, before any request
RunDetermineCommitShaThrows ==
  /\ pc = "run"
  /\ run.pc = "check"
  /\ determineCommitShaThrows(run.eventName)
  /\ run' = [run EXCEPT !.pc = "catch", !.error = TypeErrorMessage,
                        !.threwAt = "createCheck",
                        !.calls = Append(@, "createCheck")]
  /\ UNCHANGED <<pc, compactVars, fileVars, coveragePercentValue, analysis, diff, lines, calc, proc>>

\* run(): the request of createCheck is answered
RunCreateCheckResolves ==
  /\ pc = "run"
  /\ run.pc = "awaitCheck"
  /\ run' = [run EXCEPT !.pc = "outputs"]
  /\ UNCHANGED <<pc, compactVars, fileVars, coveragePercentValue, analysis, diff, lines, calc, proc>>

\* (variant: the outputs are already set when createCheck is rejected)
RunCreateCheckThrows_AfterOutputs ==
  /\ pc = "run"
  /\ run.pc = "awaitCheck"
  /\ \E message \in RequestErrors :
       run' = [run EXCEPT !.pc = "catch", !.error = message, !.threwAt = "createCheck",
                          !.outputs = << <<"coverage-percentage", run.coveragePercentage>> >>]
  /\ UNCHANGED <<pc, compactVars, fileVars, coveragePercentValue, analysis, diff, lines, calc, proc>>

\* run(): the request of createCheck is rejected
RunCreateCheckThrows ==
  /\ pc = "run"
  /\ run.pc = "awaitCheck"
  /\ \E message \in RequestErrors :
       run' = [run EXCEPT !.pc = "catch", !.error = message, !.threwAt = "createCheck"]
  /\ UNCHANGED <<pc, compactVars, fileVars, coveragePercentValue, analysis, diff, lines, calc, proc>>

\* run(): the outputs are set, and the action fails below the threshold
RunSetOutputs ==
  /\ pc = "run"
  /\ run.pc = "outputs"
  /\ run' = [run EXCEPT
               !.pc = "done",
               !.outputs = << <<"coverage-percentage", run.coveragePercentage>>,
                              <<"total-lines", run.result.totalChangedLines>>,
                              <<"relevant-lines", run.result.relevantChangedLines>>,
                              <<"covered-lines", run.result.coveredChangedLines>>,
                              <<"skipped-files", joinComma(run.result.skippedFiles)>> >>,
               !.setFailed = IF ~run.success
                             THEN Append(@, belowThresholdMessage(run.coveragePercentage,
                                                                  run.coverageThreshold))
                             ELSE @]
  /\ UNCHANGED <<pc, compactVars, fileVars, coveragePercentValue, analysis, diff, lines, calc, proc>>

\* (variant: the catch block reports a message of its own)
RunCatch_OwnMessage ==
  /\ pc = "run"
  /\ run.pc = "catch"
  /\ run' = [run EXCEPT !.pc = "done",
                        !.consoleError = Append(@, run.error),
                        !.setFailed = Append(@, "Action failed")]
  /\ UNCHANGED <<pc, compactVars, fileVars, coveragePercentValue, analysis, diff, lines, calc, proc>>

\* run(): the catch block
RunCatch ==
  /\ pc = "run"
  /\ run.pc = "catch"
  /\ run' = [run EXCEPT !.pc = "done",
                        !.consoleError = Append(@, run.error),
                        !.setFailed = Append(@, run.error)]
  /\ UNCHANGED <<pc, compactVars, fileVars, coveragePercentValue, analysis, diff, lines, calc, proc>>

\* analyzeCoverageForLines(filePath, fileCoverage, changedLineNumbers)
AnalyzeCoverageForLinesCall ==
  /\ pc = "idle"
  /\ \E input \in AnalysisInputs :
       analysis' = [fileCoverage |-> input.fileCoverage,
                    changedLineNumbers |-> input.changedLineNumbers,
                    result |-> analyzeCoverageForLines(AnalysedPath, input.fileCoverage,
                                                       input.changedLineNumbers)]
  /\ pc' = "analysed"
  /\ UNCHANGED <<compactVars, fileVars, coveragePercentValue, logicVars>>

Next ==
  \/ CompactCall
  \/ CompactWaitingForStart
  \/ CompactWaitingForEnd
  \/ CompactReturn
  \/ NewFile
  \/ GetAnnotations
  \/ GetChangedLinesCoverageData
  \/ GetCoveragePercent
  \/ ParseDiffHunksCall
  \/ CompactLineNumbersCall
  \/ CalculateCoverageCall
  \/ ProcessCall
  \/ AnalyzeCoverageForLinesCall
  \/ RunGetInputs
  \/ RunRead
  \/ RunReadThrows
  \/ RunDetermineChangedFiles
  \/ RunDetermineChangedFilesThrows
  \/ RunCreateCheck
  \/ RunCreateCheckResolves
  \/ RunCreateCheckThrows
  \/ RunDetermineCommitShaThrows
  \/ RunSetOutputs
  \/ RunCatch

Spec == Init /\ [][Next]_vars

\* the steps of a call that has begun: nothing suspends a synchronous call,
\* and every awaited request of run() settles
Continue ==
  \/ CompactWaitingForStart
  \/ CompactWaitingForEnd
  \/ CompactReturn
  \/ RunRead
  \/ RunReadThrows
  \/ RunDetermineChangedFiles
  \/ RunDetermineChangedFilesThrows
  \/ RunCreateCheck
  \/ RunCreateCheckResolves
  \/ RunCreateCheckThrows
  \/ RunDetermineCommitShaThrows
  \/ RunSetOutputs
  \/ RunCatch

FairSpec == Spec /\ WF_vars(Continue)

\* -------------------------------------------------- vocabulary of the claims
CompactDone == pc = "compact_done"

\* the ranges the finished call returned
emitted == scan.ranges

IsZero(k) == counts[k] = 0
IsIgnored(k) == counts[k] = NULL
IsBoundary(k) == counts[k] = NOT_CHANGED \/ counts[k] > 0

\* line k (1-based) lies in range r
Covers(r, k) == r.start <= k /\ k <= r.end

RangesCovering(k) == { n \in 1..Len(emitted) : Covers(emitted[n], k) }

\* the ZERO lines that open a maximal block free of POSITIVE/NOT_CHANGED entries
BlockOpeners ==
  { k \in 1..Len(counts) :
      /\ IsZero(k)
      /\ \A j \in 1..(k - 1) : IsZero(j) => \E m \in (j + 1)..(k - 1) : IsBoundary(m) }

\* the call ended in the "tidy up end" branch
ClosedByTidyUp == CompactDone /\ Len(counts) > 0 /\ scan.mode = WAITING_FOR_END

GotAnnotations == pc = "file" /\ "annotations" \in got

GotChangedLinesCoverageData == pc = "file" /\ "changedLinesCoverageData" \in got

\* ------------------------------------------------------------------ claims
\* C1: every index whose marker is ZERO is contained in exactly one range
\* emitted by compactCountsToLineNumbers.
C1_EveryZeroInExactlyOneRange ==
  CompactDone =>
    \A k \in 1..Len(counts) : IsZero(k) => Cardinality(RangesCovering(k)) = 1

C1_Witness ==
  /\ CompactDone
  /\ Len(emitted) >= 2
  /\ \E k \in 1..Len(counts) : IsZero(k)
  /\ \E k \in 1..Len(counts) : IsIgnored(k) /\ RangesCovering(k) # {}

\* C2: the start line and the end line of every emitted range refer to an
\* entry whose marker is ZERO, never to an IGNORED or NOT_CHANGED entry.
C2_RangesStartAndEndOnZero ==
  CompactDone =>
    \A n \in 1..Len(emitted) :
      /\ emitted[n].start \in 1..Len(counts)
      /\ emitted[n].end \in 1..Len(counts)
      /\ IsZero(emitted[n].start)
      /\ IsZero(emitted[n].end)

\* C3: when the array is exhausted while still waiting for the end of a span,
\* the final range is closed at the last index: its 1-indexed end equals the
\* array length.
C3_TidyUpClosesAtLastIndex ==
  ClosedByTidyUp => emitted[Len(emitted)].end = Len(counts)

\* C4: no emitted range contains an index whose marker is POSITIVE or
\* NOT_CHANGED.
C4_NoBoundaryInsideRange ==
  CompactDone =>
    \A n \in 1..Len(emitted) : \A k \in 1..Len(counts) :
      Covers(emitted[n], k) => ~IsBoundary(k)

C4_Witness ==
  /\ CompactDone
  /\ Len(emitted) >= 2
  /\ \E k \in 1..Len(counts) : counts[k] = NOT_CHANGED
  /\ \E k \in 1..Len(counts) : counts[k] > 0
  /\ \E n \in 1..Len(emitted) : emitted[n].start < emitted[n].end

\* C5: two ZERO entries with only ZERO or IGNORED entries between them lie in
\* the same emitted range, and the number of ranges is the number of maximal
\* blocks free of POSITIVE/NOT_CHANGED entries that contain a ZERO.
C5_SpansRunThroughIgnored ==
  CompactDone =>
    /\ \A j, k \in 1..Len(counts) :
         (j < k /\ IsZero(j) /\ IsZero(k) /\ \A m \in j..k : ~IsBoundary(m))
           => \E n \in 1..Len(emitted) : Covers(emitted[n], j) /\ Covers(emitted[n], k)
    /\ Len(emitted) = Cardinality(BlockOpeners)

C5_Witness ==
  /\ CompactDone
  /\ Len(emitted) >= 2
  /\ \E n \in 1..Len(emitted) : \E k \in 1..Len(counts) :
       emitted[n].start < k /\ k < emitted[n].end /\ IsIgnored(k)

\* C6: every annotation of File.annotations has start_line >= 1,
\* end_line >= start_line and annotation_level 'warning'.
C6_AnnotationShape ==
  GotAnnotations =>
    \A n \in 1..Len(annotationsValue) :
      /\ annotationsValue[n].start_line >= 1
      /\ annotationsValue[n].end_line >= annotationsValue[n].start_line
      /\ annotationsValue[n].annotation_level = "warning"

C6_Witness ==
  /\ GotAnnotations
  /\ Len(annotationsValue) >= 2
  /\ \E n \in 1..Len(annotationsValue) :
       annotationsValue[n].start_line < annotationsValue[n].end_line

\* C7 as claimed: a File with coverage data and no executed line anywhere has
\* exactly the one whole-file annotation 1..lineCount 'File has no coverage'.
C7_WholeFileWheneverUnexecuted ==
  (GotAnnotations /\ partOfTestSuite(file) /\ executedLinesCount(file) = 0)
    => annotationsValue = <<wholeFileAnnotation(file)>>

\* C7 as amended: the same, for a File that also has a relevant missed line.
C7_WholeFileWhenUnexecutedAndMissed ==
  (GotAnnotations /\ partOfTestSuite(file) /\ executedLinesCount(file) = 0
     /\ relevantMissedLinesCount(file) > 0)
    => /\ Len(annotationsValue) = 1
       /\ annotationsValue[1].start_line = 1
       /\ annotationsValue[1].end_line = Len(file.coverageData)
       /\ annotationsValue[1].message = "File has no coverage"

C7_Witness ==
  /\ GotAnnotations
  /\ file.coverageData = <<0, 0, NULL, 0>>
  /\ file.changedLines = <<1, 2, 3, 4>>
  /\ Len(annotationsValue) = 1
  /\ annotationsValue[1].end_line = 4

\* C8: File.annotations is empty whenever relevantMissedLines is empty.
C8_NoMissedLinesNoAnnotations ==
  (GotAnnotations /\ relevantMissedLines(file) = <<>>) => annotationsValue = <<>>

C8_Witness ==
  /\ GotAnnotations
  /\ partOfTestSuite(file)
  /\ executedLinesCount(file) = 0
  /\ missedLinesCount(file) > 0
  /\ Len(file.changedLines) > 0
  /\ relevantMissedLines(file) = <<>>
  /\ annotationsValue = <<>>

\* the File of the "dangling nulls" scenario
IsDanglingNullsFile ==
  /\ file.changedLines = <<1, 2, 3, 4, 5, 6, 7, 8, 9>>
  /\ file.coverageData = <<1, 0, NULL, 0, 0, NULL, NULL, 1, 1, 1>>

\* C9 as claimed: changedLines 1..9 over [1,0,null,0,0,null,null,1,1,1] yields
\* exactly one annotation, lines 2 to 6.
C9_DanglingNullsEndAtSix ==
  (GotAnnotations /\ IsDanglingNullsFile)
    => /\ Len(annotationsValue) = 1
       /\ annotationsValue[1].start_line = 2
       /\ annotationsValue[1].end_line = 6

\* C9 as amended: the one annotation is lines 2 to 5.
C9_DanglingNullsEndAtFive ==
  (GotAnnotations /\ IsDanglingNullsFile)
    => /\ Len(annotationsValue) = 1
       /\ annotationsValue[1].start_line = 2
       /\ annotationsValue[1].end_line = 5
       /\ annotationsValue[1].message = "Lines 2-5 have no coverage"

C9_Witness ==
  GotAnnotations /\ IsDanglingNullsFile /\ Len(annotationsValue) = 1

\* C10: changedLinesCoverageData is as long as coverageData, is NOT_CHANGED at
\* every line outside changedLines whatever its count, is the original marker
\* at every changed line, and reading it changes neither coverageData nor
\* changedLines.
C10_ChangedLinesCoverageData ==
  /\ [](GotChangedLinesCoverageData =>
          /\ Len(changedLinesCoverageDataValue) = Len(file.coverageData)
          /\ \A k \in 1..Len(file.coverageData) :
               changedLinesCoverageDataValue[k] =
                 IF \E n \in 1..Len(file.changedLines) : file.changedLines[n] = k
                 THEN file.coverageData[k] ELSE NOT_CHANGED)
  /\ [][GetChangedLinesCoverageData =>
          (file.coverageData' = file.coverageData /\ file.changedLines' = file.changedLines)]_vars

C10_Witness ==
  /\ GotChangedLinesCoverageData
  /\ \E k \in 1..Len(file.coverageData) :
       file.coverageData[k] > 0 /\ changedLinesCoverageDataValue[k] = NOT_CHANGED
  /\ \E k \in 1..Len(file.coverageData) :
       file.coverageData[k] = NULL /\ changedLinesCoverageDataValue[k] = NULL
  /\ \E k \in 1..Len(file.coverageData) :
       file.coverageData[k] = 0 /\ changedLinesCoverageDataValue[k] = 0


GotCoveragePercent == pc = "file" /\ "coveragePercent" \in got

\* the members of a sequence
elements(seq) == { seq[k] : k \in 1..Len(seq) }

\* C11: for every File, relevantLines is a subset of changedLines and of
\* executableLines, relevantMissedLines is a subset of relevantLines, and
\* coveragePercent lies in [0,100] and is 100 when relevantLines is empty
C11_RelevantLinesAndPercent ==
  pc = "file" =>
    /\ elements(relevantLines(file)) \subseteq elements(file.changedLines)
    /\ elements(relevantLines(file)) \subseteq elements(executableLines(file))
    /\ elements(relevantMissedLines(file)) \subseteq elements(relevantLines(file))
    /\ GotCoveragePercent =>
         /\ coveragePercentValue.den > 0
         /\ 0 <= coveragePercentValue.num
         /\ coveragePercentValue.num <= 100 * coveragePercentValue.den
         /\ relevantLines(file) = <<>> =>
              coveragePercentValue.num = 100 * coveragePercentValue.den

\* a file of the suite with changed lines none of which is executable has
\* had its coveragePercent read
C11_Witness ==
  /\ GotCoveragePercent
  /\ file.changedLines # <<>>
  /\ relevantLines(file) = <<>>
  /\ partOfTestSuite(file)

\* -------------------------------------------------- vocabulary of the diff claims
Parsed == pc = "parsed" /\ ~diff.threw

\* the lines of the patch text that was parsed
patchLines == IF diff.patch.defined THEN split(diff.patch.text) ELSE <<>>

IsHeaderLine(line) == Len(line) >= 2 /\ line[1] = "@" /\ line[2] = "@"

IsDeletionLine(line) == Len(line) >= 1 /\ line[1] = "-"

\* a line starting with "+" that is not a "+++" line
IsAddedLine(line) ==
  /\ Len(line) >= 1
  /\ line[1] = "+"
  /\ ~(Len(line) >= 3 /\ line[2] = "+" /\ line[3] = "+")

AllDigits(line, i, j) == i <= j /\ \A k \in i..j : IsDigit(line[k])

RECURSIVE decimal(_, _, _)
decimal(line, i, j) ==
  IF j < i THEN 0 ELSE 10 * decimal(line, i, j - 1) + DigitValue(line[j])

\* the first position from p on that holds ch, or 0
firstAt(line, ch, p) ==
  LET found == { k \in p..Len(line) : line[k] = ch }
  IN IF found = {} THEN 0 ELSE CHOOSE k \in found : \A other \in found : k <= other

\* the positions of the two commas and the two blanks of "@@ -a,b +c,d @@"
headerShape(line) ==
  LET comma1 == firstAt(line, ",", 5)
      blank1 == firstAt(line, " ", comma1 + 1)
      comma2 == firstAt(line, ",", blank1 + 1)
      blank2 == firstAt(line, " ", comma2 + 1)
  IN [comma1 |-> comma1, blank1 |-> blank1, comma2 |-> comma2, blank2 |-> blank2]

WellFormedHeader(line) ==
  LET q == headerShape(line)
  IN /\ Len(line) >= 4
     /\ SubSeq(line, 1, 4) = <<"@", "@", " ", "-">>
     /\ q.comma1 > 0 /\ q.blank1 > 0 /\ q.comma2 > 0 /\ q.blank2 > 0
     /\ AllDigits(line, 5, q.comma1 - 1)
     /\ AllDigits(line, q.comma1 + 1, q.blank1 - 1)
     /\ line[q.blank1 + 1] = "+"
     /\ AllDigits(line, q.blank1 + 2, q.comma2 - 1)
     /\ AllDigits(line, q.comma2 + 1, q.blank2 - 1)
     /\ Len(line) >= q.blank2 + 2
     /\ line[q.blank2 + 1] = "@"
     /\ line[q.blank2 + 2] = "@"

\* c of "@@ -a,b +c,d @@"
newStart(line) ==
  LET q == headerShape(line)
  IN decimal(line, q.blank1 + 2, q.comma2 - 1)

headerIndexes == { k \in 1..Len(patchLines) : IsHeaderLine(patchLines[k]) }

addedIndexes == { k \in 1..Len(patchLines) : IsAddedLine(patchLines[k]) }

HasHeaderBefore(k) == \E h \in headerIndexes : h < k

\* the index of the most recent header before line k
headerBefore(k) == CHOOSE h \in headerIndexes : h < k /\ \A g \in headerIndexes : g < k => g <= h

\* the new-file line number of line k of a hunk with a well-formed header
expectedLineNumber(k) ==
  LET h == headerBefore(k)
  IN newStart(patchLines[h])
       + Cardinality({ j \in (h + 1)..(k - 1) : ~IsDeletionLine(patchLines[j]) })

\* every header has the form "@@ -a,b +c,d @@" and no addition precedes the
\* first header
WellFormedPatch ==
  /\ diff.patch.defined
  /\ diff.patch.text # <<>>
  /\ \A h \in headerIndexes : WellFormedHeader(patchLines[h])
  /\ \A k \in addedIndexes : HasHeaderBefore(k)

\* C12: for a patch whose hunk headers all have the form "@@ -a,b +c,d @@",
\* parseDiffHunks emits one number per added line, in patch order, equal to
\* the newStart of the most recent header plus the count of lines not starting
\* with "-" between that header and the added line; within one hunk the
\* numbers are strictly increasing
C12_AddedLinesNumberedFromHeader ==
  Parsed /\ WellFormedPatch =>
    LET added == ascending(addedIndexes)
    IN /\ Len(diff.changedLines) = Len(added)
       /\ \A n \in 1..Len(added) : diff.changedLines[n] = expectedLineNumber(added[n])
       /\ \A m, n \in 1..Len(added) :
            m < n /\ headerBefore(added[m]) = headerBefore(added[n])
              => diff.changedLines[m] < diff.changedLines[n]

\* two hunks were parsed, each with a deletion between two additions
C12_Witness ==
  /\ Parsed
  /\ WellFormedPatch
  /\ Cardinality(headerIndexes) = 2
  /\ \A h \in headerIndexes :
       \E j, k, l \in 1..Len(patchLines) :
         /\ h < j /\ j < k /\ k < l
         /\ headerBefore(j) = h /\ headerBefore(l) = h
         /\ IsAddedLine(patchLines[j])
         /\ IsDeletionLine(patchLines[k])
         /\ IsAddedLine(patchLines[l])
  /\ diff.changedLines = <<3, 5, 12, 13>>

\* "+", digits, ",", a digit somewhere in the line: the hunk-header pattern
MatchesHeaderPattern(line) ==
  \E i, j \in 1..Len(line) :
    /\ line[i] = "+"
    /\ AllDigits(line, i + 1, j - 1)
    /\ line[j] = ","
    /\ j < Len(line)
    /\ IsDigit(line[j + 1])

\* the added lines whose most recent header matches the pattern
addedUnderMatchedHeader ==
  { k \in addedIndexes : HasHeaderBefore(k) /\ MatchesHeaderPattern(patchLines[headerBefore(k)]) }

\* the added lines whose most recent header does not match the pattern
addedUnderUnmatchedHeader ==
  { k \in addedIndexes : HasHeaderBefore(k) /\ ~MatchesHeaderPattern(patchLines[headerBefore(k)]) }

\* C13: when a header line cannot be matched against the hunk-header
\* pattern, parseDiffHunks emits nothing for the added lines of that hunk,
\* the hunks with a matching header are still parsed, and nothing is thrown
C13_UnmatchedHunkEmitsNothing ==
  /\ pc = "parsed" /\ diff.patch.defined => ~diff.threw
  /\ Parsed /\ diff.patch.defined /\ diff.patch.text # <<>>
       /\ (\A k \in addedIndexes : HasHeaderBefore(k))
     => LET kept == ascending(addedUnderMatchedHeader)
        IN /\ Len(diff.changedLines) = Len(kept)
           /\ \A n \in 1..Len(kept) :
                WellFormedHeader(patchLines[headerBefore(kept[n])])
                  => diff.changedLines[n] = expectedLineNumber(kept[n])

\* C14: for every patch text, the numbers parseDiffHunks emits are
\* 1-indexed line numbers, none emitted twice
C14_EmittedAreDistinctLineNumbers ==
  Parsed =>
    /\ \A n \in 1..Len(diff.changedLines) : diff.changedLines[n] >= 1
    /\ \A m, n \in 1..Len(diff.changedLines) :
         m # n => diff.changedLines[m] # diff.changedLines[n]

\* C15: parseDiffHunks returns the empty sequence, and throws nothing, when
\* the patch is absent or the empty string
C15_NoPatchNoChangedLines ==
  pc = "parsed" /\ (~diff.patch.defined \/ diff.patch.text = <<>>) =>
    /\ ~diff.threw
    /\ diff.changedLines = <<>>

\* parseDiffHunks has returned for an absent patch
C15_Witness ==
  /\ pc = "parsed"
  /\ ~diff.patch.defined
  /\ ~diff.threw
  /\ diff.changedLines = <<>>

\* ------------------------------------------ vocabulary of the range claims
LinesCompacted == pc = "lines_done"

\* the numbers that start a maximal run of consecutive numbers of S
runStarts(S) == { n \in S : (n - 1) \notin S }

\* C16: for a non-empty strictly ascending sequence, compactLineNumbers
\* emits one range per maximal run of consecutive integers: start <= end,
\* adjacent ranges are at least 2 apart and in ascending order, the ranges
\* cover exactly the input set, and each label is "n" for a single line
\* and "start-end" otherwise
C16_OneRangePerMaximalRun ==
  LinesCompacted /\ lines.lineNumbers # <<>> =>
    LET S == elements(lines.lineNumbers)
        ranges == lines.ranges
    IN /\ Len(ranges) = Cardinality(runStarts(S))
       /\ \A k \in 1..Len(ranges) :
            /\ ranges[k].start <= ranges[k].end
            /\ ranges[k].start \in runStarts(S)
            /\ ranges[k].formatted =
                 IF ranges[k].start = ranges[k].end
                 THEN ToString(ranges[k].start)
                 ELSE ToString(ranges[k].start) \o "-" \o ToString(ranges[k].end)
       /\ \A k \in 1..(Len(ranges) - 1) : ranges[k + 1].start - ranges[k].end >= 2
       /\ UNION { ranges[k].start .. ranges[k].end : k \in 1..Len(ranges) } = S

\* the array of the test was compacted into 1-4, 8, 10-12 and 14-15
C16_Witness ==
  /\ LinesCompacted
  /\ lines.lineNumbers = <<1, 2, 3, 4, 8, 10, 11, 12, 14, 15>>
  /\ Len(lines.ranges) = 4
  /\ lines.ranges[2] = [start |-> 8, end |-> 8, formatted |-> "8"]
  /\ lines.ranges[3] = [start |-> 10, end |-> 12, formatted |-> "10-12"]

\* ---------------------------------------- vocabulary of the verdict claims
Calculated == pc = "calc_done"

\* run() returned without entering its catch block
RunCompleted == pc = "run" /\ run.pc = "done" /\ run.error = ""

\* p is the integer nearest to (c / r) * 100, a tie going up
IsRounded(p, c, r) == 2 * p * r <= 200 * c + r /\ 200 * c + r < 2 * (p + 1) * r

\* C17: calculateCoverage returns round(coveredLines / relevantLines * 100)
\* when relevantLines > 0 and 100 when relevantLines = 0, so a changeset
\* without relevant changed lines passes for every threshold in 0..100
C17_CoverageRoundedOrVacuous ==
  /\ Calculated =>
       /\ calc.relevantLines > 0 =>
            IsRounded(calc.coveragePercentage, calc.coveredLines, calc.relevantLines)
       /\ calc.relevantLines = 0 =>
            /\ calc.coveragePercentage = 100
            /\ \A t \in 0..100 : passed(calc.coveragePercentage, number(t))
  /\ RunCompleted =>
       /\ run.result.relevantChangedLines > 0 =>
            IsRounded(run.coveragePercentage, run.result.coveredChangedLines,
                      run.result.relevantChangedLines)
       /\ run.result.relevantChangedLines = 0 =>
            /\ run.coveragePercentage = 100
            /\ (\E t \in 0..100 : run.coverageThreshold = number(t))
                 => run.success /\ run.setFailed = <<>>

\* a run over one tracked file with an empty patch completed under the
\* threshold 100
C17_Witness ==
  /\ RunCompleted
  /\ run.coverageThreshold = number(100)
  /\ Len(run.changedFiles) = 1
  /\ run.coverageData[run.changedFiles[1].filename].defined
  /\ run.changedFiles[1].previous_filename = ""
  /\ run.result.skippedFiles = <<>>
  /\ run.result.relevantChangedLines = 0
  /\ run.coveragePercentage = 100
  /\ run.success

\* coveragePercentage >= coverageThreshold, which no number is to NaN
AtOrAboveThreshold ==
  ~run.coverageThreshold.isNaN /\ run.coveragePercentage >= run.coverageThreshold.value

\* C18: in every run that completes without an exception the verdict is
\* passed exactly when coveragePercentage >= coverageThreshold: then the
\* check created has the conclusion "success" and setFailed is not called,
\* otherwise the conclusion is "failure" and setFailed is called once with
\* the below-threshold message
C18_VerdictFollowsThreshold ==
  RunCompleted =>
    /\ run.success <=> AtOrAboveThreshold
    /\ Len(run.checks) = (IF run.annotate THEN 1 ELSE 0)
    /\ AtOrAboveThreshold =>
         /\ \A k \in 1..Len(run.checks) : run.checks[k].conclusion = "success"
         /\ run.setFailed = <<>>
    /\ ~AtOrAboveThreshold =>
         /\ \A k \in 1..Len(run.checks) : run.checks[k].conclusion = "failure"
         /\ run.setFailed =
              << "Code coverage (" \o ToString(run.coveragePercentage)
                   \o "%) is below the required threshold ("
                   \o (IF run.coverageThreshold.isNaN THEN "NaN"
                       ELSE ToString(run.coverageThreshold.value))
                   \o "%)" >>

\* a run with a check completed with the percentage exactly at the threshold
C18_Witness ==
  /\ RunCompleted
  /\ run.annotate
  /\ run.coveragePercentage = 67
  /\ run.coverageThreshold = number(67)
  /\ Len(run.checks) = 1
  /\ run.checks[1].conclusion = "success"
  /\ run.setFailed = <<>>

\* ---------------------------------------- vocabulary of the process claims
Processed == pc = "processed"

\* the coverage map has no entry for f
NotTracked(f) ==
  f.filename \notin DOMAIN proc.coverageData \/ ~proc.coverageData[f.filename].defined

PureRename(f) == f.previous_filename # "" /\ (~f.patch.defined \/ f.patch.text = <<>>)

IsSkippedFile(f) == PureRename(f) \/ NotTracked(f)

markersOf(f) == IF NotTracked(f) THEN <<>> ELSE proc.coverageData[f.filename].counts

\* the changed lines of f whose marker satisfies Test
changedLinesWith(f, Test(_)) ==
  LET changed == parseDiffHunks(f.patch)
  IN { n \in 1..Len(changed) :
         /\ changed[n] \in 1..Len(markersOf(f))
         /\ Test(markersOf(f)[changed[n]]) }

IsNotNull(count) == count # NULL

IsPositive(count) == count # NULL /\ count > 0

\* the sum of Count over the non-skipped files among the first k changed files
RECURSIVE sumOverAnalysed(_, _)
sumOverAnalysed(Count(_), k) ==
  IF k = 0 THEN 0
  ELSE sumOverAnalysed(Count, k - 1)
         + (IF IsSkippedFile(proc.changedFiles[k]) THEN 0 ELSE Count(proc.changedFiles[k]))

changedCount(f) == Len(parseDiffHunks(f.patch))

relevantCountOf(f) == Cardinality(changedLinesWith(f, IsNotNull))

coveredCountOf(f) == Cardinality(changedLinesWith(f, IsPositive))

\* C19: in process, a changed file absent from the coverage map is skipped:
\* its name is in skippedFiles and it adds nothing to the totals or the
\* annotations; the three totals are the sums, over the non-skipped files,
\* of the changed-line count, the changed lines with a non-null marker and
\* the changed lines with a marker > 0
C19_UntrackedFilesSkipped ==
  Processed =>
    LET n == Len(proc.changedFiles)
        result == proc.result
    IN /\ \A k \in 1..n :
            NotTracked(proc.changedFiles[k])
              => proc.changedFiles[k].filename \in elements(result.skippedFiles)
       /\ Len(result.skippedFiles)
            = Cardinality({ k \in 1..n : IsSkippedFile(proc.changedFiles[k]) })
       /\ result.totalChangedLines = sumOverAnalysed(changedCount, n)
       /\ result.relevantChangedLines = sumOverAnalysed(relevantCountOf, n)
       /\ result.coveredChangedLines = sumOverAnalysed(coveredCountOf, n)
       /\ \A a \in 1..Len(result.annotations) :
            \E k \in 1..n :
              /\ ~IsSkippedFile(proc.changedFiles[k])
              /\ result.annotations[a].path = proc.changedFiles[k].filename
              /\ result.annotations[a].start_line
                   \in elements(parseDiffHunks(proc.changedFiles[k].patch))

\* an untracked file with changed lines was processed beside a tracked file
\* with relevant changed lines
C19_Witness ==
  /\ Processed
  /\ Len(proc.changedFiles) = 2
  /\ NotTracked(proc.changedFiles[1])
  /\ changedCount(proc.changedFiles[1]) > 0
  /\ ~IsSkippedFile(proc.changedFiles[2])
  /\ proc.result.skippedFiles = <<proc.changedFiles[1].filename>>
  /\ proc.result.totalChangedLines = changedCount(proc.changedFiles[2])
  /\ proc.result.relevantChangedLines > proc.result.coveredChangedLines
  /\ proc.result.annotations # <<>>

\* the same changed file without its previous filename
withoutPrevious(f) == [f EXCEPT !.previous_filename = ""]

\* the coverage map without an entry for f
withoutCoverageOf(f) == [proc.coverageData EXCEPT ![f.filename] = noCoverage]

\* what process makes of a pure rename: skipped, no counts, no annotations
PureRenamesLeftOut ==
  \A k \in 1..Len(proc.changedFiles) :
    PureRename(proc.changedFiles[k]) =>
      /\ proc.fileResults[k].skipped
      /\ DOMAIN proc.fileResults[k] \cap
           {"totalChangedLines", "relevantChangedLines", "coveredChangedLines",
            "annotations"} = {}
      /\ proc.changedFiles[k].filename \in elements(proc.result.skippedFiles)

\* a renamed file with a patch gets the result of the same file not renamed
RenamesWithPatchAnalysed ==
  \A k \in 1..Len(proc.changedFiles) :
    LET f == proc.changedFiles[k]
    IN f.previous_filename # "" /\ ~PureRename(f) =>
         proc.fileResults[k] = processFile(withoutPrevious(f), proc.coverageData)

\* the result for a pure rename differs from the result for the same file
\* skipped because the coverage map has no entry for it
PureRenamesDistinguishable ==
  \A k \in 1..Len(proc.changedFiles) :
    LET f == proc.changedFiles[k]
    IN PureRename(f) =>
         proc.fileResults[k] # processFile(withoutPrevious(f), withoutCoverageOf(f))

\* C20: a pure rename (previous filename, no patch) produces no annotations
\* and no line counts even when its new path has uncovered lines in the
\* coverage map, and is reported as skipped for the reason "rename",
\* distinguishable from a file skipped because the suite does not track it;
\* a renamed file that carries a patch is analysed like any other file
C20_PureRenameSkippedAsRename ==
  Processed =>
    /\ PureRenamesLeftOut
    /\ RenamesWithPatchAnalysed
    /\ PureRenamesDistinguishable

\* ------------------------------------------- vocabulary of the run() claims
RunEnded == pc = "run" /\ run.pc = "done"

ReadThrew == pc = "run" /\ run.threwAt = "read"

\* C21: when reading or parsing the coverage file throws, run() calls
\* setFailed exactly once, with the message of the error thrown, never
\* fetches the changed files, creates no check run and sets no outputs
C21_ReadFailureIsFatal ==
  ReadThrew =>
    /\ run.error \in ReadErrors
    /\ run.calls = <<"read">>
    /\ run.changedFiles = <<>>
    /\ run.checks = <<>>
    /\ run.outputs = <<>>
    /\ run.pc \in {"catch", "done"}
    /\ run.pc = "catch" => run.setFailed = <<>>
    /\ run.pc = "done" => run.setFailed = <<run.error>>

\* run() has ended after JSON.parse threw
C21_Witness ==
  /\ RunEnded
  /\ ReadThrew
  /\ run.error = "Unexpected end of JSON input"
  /\ run.setFailed = <<"Unexpected end of JSON input">>
  /\ run.consoleError # <<>>

\* the terminal state "complete report"
CompleteReport ==
  /\ run.threwAt = ""
  /\ Len(run.outputs) = 5
  /\ { run.outputs[k][1] : k \in 1..5 }
       = {"coverage-percentage", "total-lines", "relevant-lines", "covered-lines",
          "skipped-files"}
  /\ Len(run.checks) = (IF run.annotate THEN 1 ELSE 0)
  /\ Len(run.setFailed) <= 1
  /\ run.setFailed # <<>> =>
       /\ ~AtOrAboveThreshold
       /\ run.setFailed[1] # run.error

\* the terminal state "fatal error"
FatalError ==
  /\ run.threwAt # ""
  /\ run.setFailed = <<run.error>>
  /\ run.outputs = <<>>

\* C22: every run of run() ends, and ends in exactly one of two terminal
\* states: a complete report (all outputs set, the check created when
\* annotate is on, setFailed at most once and only below the threshold) or
\* a single fatal error (setFailed once with the error's message, no
\* outputs); no run both sets outputs and reports a fatal error
C22_ReportOrFatalError ==
  /\ [](RunEnded => (CompleteReport /\ ~FatalError) \/ (FatalError /\ ~CompleteReport))
  /\ [](pc = "run" => ~(run.outputs # <<>> /\ run.threwAt # ""))
  /\ (pc = "run" ~> RunEnded)

\* a run ended in a fatal error after createCheck was rejected
C22_Witness ==
  /\ RunEnded
  /\ run.threwAt = "createCheck"
  /\ FatalError
  /\ run.calls = <<"read", "determineChangedFiles", "createCheck">>

\* ------------------------------------------ vocabulary of the totals claims
Analysed == pc = "analysed"

\* 0 <= covered <= relevant <= total, and the percentage is in 0..100
TotalsOrdered(result) ==
  /\ 0 <= result.coveredChangedLines
  /\ result.coveredChangedLines <= result.relevantChangedLines
  /\ result.relevantChangedLines <= result.totalChangedLines
  /\ calculateCoverage(result.coveredChangedLines, result.relevantChangedLines) \in 0..100

\* C23: after process over any changed files and any coverage map,
\* 0 <= coveredChangedLines <= relevantChangedLines <= totalChangedLines, so
\* the coverage percentage computed from them is an integer in 0..100
C23_TotalsOrderedPercentInRange ==
  /\ Processed => TotalsOrdered(proc.result)
  /\ Analysed => TotalsOrdered(analysis.result)
  /\ RunCompleted => TotalsOrdered(run.result) /\ run.coveragePercentage \in 0..100

\* process returned totals that all differ, over a file with a null line
C23_Witness ==
  /\ Processed
  /\ 0 < proc.result.coveredChangedLines
  /\ proc.result.coveredChangedLines < proc.result.relevantChangedLines
  /\ proc.result.relevantChangedLines < proc.result.totalChangedLines
  /\ \E k \in 1..Len(proc.changedFiles) :
       /\ ~IsSkippedFile(proc.changedFiles[k])
       /\ includes(markersOf(proc.changedFiles[k]), NULL)

\* the changed lines whose coverage is 0
uncoveredChanged ==
  { n \in elements(analysis.changedLineNumbers) :
      n \in 1..Len(analysis.fileCoverage) /\ analysis.fileCoverage[n] = 0 }

\* C24: for changed line numbers in ascending order without duplicates,
\* analyzeCoverageForLines emits one annotation per maximal run of
\* consecutive line numbers that are all changed and have coverage 0: every
\* annotation contains only such lines and every such line lies in exactly
\* one annotation
C24_OneAnnotationPerUncoveredRun ==
  Analysed =>
    LET annotated == analysis.result.annotations
        U == uncoveredChanged
    IN /\ Len(annotated) = Cardinality(runStarts(U))
       /\ \A a \in 1..Len(annotated) :
            /\ annotated[a].start_line <= annotated[a].end_line
            /\ annotated[a].start_line \in runStarts(U)
            /\ (annotated[a].start_line .. annotated[a].end_line) \subseteq U
            /\ (annotated[a].end_line + 1) \notin U
       /\ \A n \in U :
            Cardinality({ a \in 1..Len(annotated) :
                            n \in annotated[a].start_line .. annotated[a].end_line }) = 1

\* the file of the pull-request test was analysed: annotations on line 2 and
\* on line 5
C24_Witness ==
  /\ Analysed
  /\ analysis.fileCoverage = <<1, 0, NULL, 1, 0, 1, 1, 1, 1, 1>>
  /\ Len(analysis.result.annotations) = 2
  /\ analysis.result.annotations[1].start_line = 2
  /\ analysis.result.annotations[1].end_line = 2
  /\ analysis.result.annotations[2].start_line = 5
  /\ analysis.result.relevantChangedLines = 9
  /\ analysis.result.coveredChangedLines = 7

\* ----------------------------------------- vocabulary of the scan-loop claims
\* this step is one pass of the for loop in the seeking-end state
SeekingEndPass ==
  /\ pc = "compact_loop"
  /\ scan.mode = WAITING_FOR_END
  /\ pc' = "compact_loop"
  /\ scan' # scan

\* this step is one pass of the for loop in the seeking-start state
SeekingStartPass ==
  /\ pc = "compact_loop"
  /\ scan.mode = WAITING_FOR_START
  /\ pc' = "compact_loop"
  /\ scan' # scan

IsPositive0(k) == At(counts, k) # NULL /\ At(counts, k) # UNDEFINED /\ At(counts, k) > 0

IsNotChanged0(k) == At(counts, k) = NOT_CHANGED

\* C25: compactCountsToLineNumbers terminates on every marker array: the
\* forward scan stops at the first POSITIVE or NOT_CHANGED entry or at the
\* array length, and the backward scan stops on a ZERO entry at an index
\* >= start, never below index 0
C25_ScansStopAndCallReturns ==
  /\ [][SeekingEndPass =>
          /\ scan.i <= scan'.next_start
          /\ scan'.next_start <= Len(counts)
          /\ \A k \in scan.i..(scan'.next_start - 1) : ~IsPositive0(k) /\ ~IsNotChanged0(k)
          /\ scan'.next_start < Len(counts) =>
               IsPositive0(scan'.next_start) \/ IsNotChanged0(scan'.next_start)
          /\ At(counts, scan'.end) = 0
          /\ scan'.end >= scan.start
          /\ scan.start >= 0
          /\ scan'.end < scan'.next_start
          /\ \A k \in (scan'.end + 1)..(scan'.next_start - 1) : At(counts, k) # 0]_vars
  /\ (pc = "compact_loop" ~> pc = "compact_done")

\* a forward scan stopped on an entry inside the array and the backward
\* scan stepped back over null entries
C25_Witness ==
  /\ pc \in {"compact_loop", "compact_done"}
  /\ scan.next_start # NULL
  /\ scan.next_start < Len(counts)
  /\ scan.end < scan.next_start - 1
  /\ scan.end > scan.start

\* 2 * i, plus 1 in the seeking-start state
scanRank(s) == 2 * s.i + (IF s.mode = WAITING_FOR_START THEN 1 ELSE 0)

\* C26 as stated: every iteration of the scan loop examines an index
\* strictly greater than the one examined by the iteration before it, in
\* both the seeking-start and the seeking-end state
C26_EveryPassAdvancesIndex ==
  [][(SeekingStartPass \/ SeekingEndPass) /\ scan'.i < Len(counts)
       => scan'.i > scan.i]_vars

\* C26, amended: no iteration moves the outer index back; a seeking-start
\* iteration advances it by one; a seeking-end iteration examines the entry
\* after start and resumes at next_start in the seeking-start state, at the
\* same index when that entry is POSITIVE or NOT_CHANGED, so an index is
\* examined at most twice and two consecutive iterations advance the index
C26_IndexNeverMovesBack ==
  [][/\ SeekingStartPass => scan'.i = scan.i + 1
     /\ SeekingEndPass =>
          /\ scan.i = scan.start + 1
          /\ scan'.mode = WAITING_FOR_START
          /\ scan'.i = scan'.next_start
          /\ scan'.i >= scan.i
          /\ scan'.i = scan.i <=> (IsPositive0(scan.i) \/ IsNotChanged0(scan.i))
     /\ (SeekingStartPass \/ SeekingEndPass) =>
          /\ scanRank(scan') > scanRank(scan)
          /\ scanRank(scan') <= 2 * Len(counts) + 1]_vars

\* a seeking-end iteration has left the outer index where it was, and the
\* loop goes on to examine that entry again
C26_Witness ==
  /\ pc = "compact_loop"
  /\ scan.mode = WAITING_FOR_START
  /\ scan.next_start # NULL
  /\ scan.i = scan.next_start
  /\ scan.next_start = scan.start + 1
  /\ scan.i < Len(counts)
  /\ scan.ranges # <<>>

\* C27: every range emitted by compactCountsToLineNumbers satisfies
\* 1 <= start <= end <= array length, so every annotation of a File has
\* end_line <= the file's line count, also when the last line of the file is
\* a changed, unexecuted line that begins a new span
C27_RangesWithinArray ==
  /\ CompactDone =>
       \A n \in 1..Len(emitted) :
         /\ 1 <= emitted[n].start
         /\ emitted[n].start <= emitted[n].end
         /\ emitted[n].end <= Len(counts)
  /\ GotAnnotations =>
       \A n \in 1..Len(annotationsValue) :
         /\ 1 <= annotationsValue[n].start_line
         /\ annotationsValue[n].start_line <= annotationsValue[n].end_line
         /\ annotationsValue[n].end_line <= lineCount(file)

\* the File is part of the suite and not whole-file-unexecuted, and its
\* annotations were read
RangeAnnotated == GotAnnotations /\ partOfTestSuite(file) /\ ~wholeFileUnexecuted(file)

IsRelevantMissed(lineNumber) == includes(relevantMissedLines(file), lineNumber)

AnnotationsCovering(lineNumber) ==
  { n \in 1..Len(annotationsValue) :
      /\ annotationsValue[n].start_line <= lineNumber
      /\ lineNumber <= annotationsValue[n].end_line }

\* C28: for a File that is part of the suite and not whole-file-unexecuted,
\* every relevant missed line lies in exactly one annotation, every
\* annotation starts and ends on a relevant missed line, no annotation
\* contains an unchanged or an executed line, and annotations is non-empty
\* iff relevantMissedLines is non-empty
C28_AnnotationsAgreeWithMissedLines ==
  RangeAnnotated =>
    /\ \A lineNumber \in 1..lineCount(file) :
         IsRelevantMissed(lineNumber) => Cardinality(AnnotationsCovering(lineNumber)) = 1
    /\ \A n \in 1..Len(annotationsValue) :
         /\ IsRelevantMissed(annotationsValue[n].start_line)
         /\ IsRelevantMissed(annotationsValue[n].end_line)
    /\ \A lineNumber \in 1..lineCount(file) :
         AnnotationsCovering(lineNumber) # {} =>
           /\ includes(file.changedLines, lineNumber)
           /\ ~includes(executedLines(file), lineNumber)
    /\ (Len(annotationsValue) > 0) <=> (relevantMissedLinesCount(file) > 0)

\* the entries strictly between two consecutive emitted ranges
gapAfter(n) == (emitted[n].end + 1)..(emitted[n + 1].start - 1)

\* C29: the ranges emitted by compactCountsToLineNumbers are strictly
\* ascending and pairwise disjoint: each range starts after the previous
\* range's end, and at least one POSITIVE or NOT_CHANGED entry lies between
\* any two consecutive ranges
C29_RangesAscendingAndSeparated ==
  CompactDone =>
    /\ \A n \in 1..(Len(emitted) - 1) :
         /\ emitted[n].end < emitted[n + 1].start
         /\ \E m \in gapAfter(n) : IsBoundary(m)
    /\ \A n, o \in 1..Len(emitted) :
         n # o => \A k \in 1..(Len(counts) + 1) : ~(Covers(emitted[n], k) /\ Covers(emitted[o], k))

\* a finished call that returned several ranges, two of them separated by a
\* gap that holds an IGNORED entry beside the boundary
C29_Witness ==
  /\ CompactDone
  /\ Len(emitted) >= 2
  /\ \E n \in 1..(Len(emitted) - 1) :
       /\ Cardinality(gapAfter(n)) >= 2
       /\ \E m \in gapAfter(n) : IsIgnored(m)

\* run() has printed the report of a changeset
Summarized == pc = "run" /\ run.threwAt = "" /\ Len(run.info) > 0

\* C30: calculateTotalMetrics yields 0 <= totalCoveredLines <=
\* totalRelevantLines, and the number summarize prints before "lines missed"
\* is totalRelevantLines - totalCoveredLines, never negative
C30_WholeSuiteFiguresConsistent ==
  Summarized =>
    /\ run.metrics = calculateTotalMetrics(run.coverageData)
    /\ 0 <= run.metrics.totalCoveredLines
    /\ run.metrics.totalCoveredLines <= run.metrics.totalRelevantLines
    /\ \E linesMissed \in 0..run.metrics.totalRelevantLines :
         /\ linesMissed = run.metrics.totalRelevantLines - run.metrics.totalCoveredLines
         /\ run.report.details
              = detailsText(run.metrics, linesMissed, run.result.skippedFiles,
                            run.changedLines)

====
